---- MODULE Spec2Model ----
(***************************************************************************)
(* Model of the sIsland browser extension (src/extension) and of the       *)
(* analysis gateway it talks to.                                           *)
(*                                                                         *)
(* Strings whose content matters (host names, blacklist entries, page      *)
(* text) are sequences of one-character strings, so that lower-casing,     *)
(* trimming, suffix tests and pattern replacement are computed character   *)
(* by character, as the JavaScript does.                                   *)
(***************************************************************************)
EXTENDS Integers, Sequences, FiniteSets, TLC

VARIABLES
  now,            \* Date.now(), in milliseconds
  storage,        \* chrome.storage.local: kidsSafetyApiKey, kidsSafetyMode
  blacklistCache, \* background.js module variable { list, at }
  navs,           \* one record per onBeforeNavigate event
  lastFailAt,     \* history: time of the latest failed blacklist fetch, or -1
  mHost, mList, mResult, mPc,  \* isHostBlacklisted applied to drawn inputs
  aReq,           \* gateway: the AnalysisRequest being assessed
  aPc,            \* gateway: position of assess: start, fanout, done
  aOutcomes,      \* gateway: ServiceCallOutcome per analysis service
  aMediaFlagged,  \* gateway: the media service's answer flags a media item
  aResponse,      \* gateway: the response of assess
  rPage,          \* the active tab: the text and media URLs its harvest yields
  rPopup,         \* popup.js sendToAgent: position and reply
  rPanic,         \* background.js runPanicFlow: position and locals
  rSent,          \* the analysis requests that reached the network, in order
  xText,          \* lib/pii.js: the text given to maskPII
  xPc,            \* start, once (masked), twice (the masked text masked again)
  xOnce,          \* maskPII(xText)
  xTwice,         \* maskPII(xOnce.masked)
  hFlow,          \* harvest (content.js getPageContentWithMedia) or panic
                  \* (background.js fetchMediaUrlsInExtension in runPanicFlow)
  hPage,          \* numbers of image and video URLs found on the page
  hUrls,          \* numbers of image and video URLs the download loops are given
  hPc,            \* images, videos, ready, returned (harvest), posted (panic)
  hTried,         \* downloads attempted so far, per kind
  hLast,          \* outcome of the latest download (history)
  hBlobs,         \* imageBlobs and videoBlobs
  hFiles,          \* panic: the file parts of the posted form
  gList,          \* aggregator: the outcome list of one request
  gPerm,          \* aggregator: the same outcomes in another order
  gPc,            \* aggregator: start, done
  gA,             \* aggregate(gList)
  gB,             \* aggregate(gPerm)
  sPage,          \* the page in the tab: texts of its elements, media elements
  sScript,        \* which content script listeners answer in the tab
  sFlow,          \* popup (sendToAgent) or panic (runPanicFlow)
  sPath,          \* the harvesting path whose answer was taken
  sPc,            \* start, harvested, sent, failed
  sSnapshot,      \* the page snapshot handed to the request builder
  sMasked,        \* popup: the text maskPII returned
  sSent,          \* website_content of the posted request
  kText,          \* lib/keywords.js: the page text
  kPc,            \* start, classified, reported
  kResult,        \* detectKeywords(kText)
  kProcessed,     \* lib/processor.js processPageText(kText)
  kPayload,       \* the report payload built from kProcessed
  \* content.js: the panic overlay of a page
  documentBody,          \* document.body exists
  panicOverlayEl,        \* the overlay element and what it displays
  panicAnalyzingTimeout, \* the 90-second timer is pending
  oDelivered,     \* messages delivered to the page so far
  oShown,         \* what the overlay displayed, in order
  \* options.js: the options page and chrome.storage.local
  pStored,        \* kidsSafetyApiKey and kidsSafetyMode
  pSave,          \* the save handler: position, raw key, parsed mode
  pAnswer,        \* the portal's last answer and the key it was asked about
  \* content.js: the page-signal send timers
  tNow,           \* milliseconds since the script was loaded
  scheduled,      \* per script body: the time its timer fires, or -1
  tMutations,     \* times of the mutations no collectAndSend has followed yet
  tRuns,          \* collectAndSend runs per script body
  readyState      \* document.readyState

guardVars == <<now, storage, blacklistCache, navs, lastFailAt>>
matchVars == <<mHost, mList, mResult, mPc>>
assessVars == <<aReq, aPc, aOutcomes, aMediaFlagged, aResponse>>
requestVars == <<rPage, rPopup, rPanic, rSent>>
redactVars == <<xText, xPc, xOnce, xTwice>>
harvestVars == <<hFlow, hPage, hUrls, hPc, hTried, hLast, hBlobs, hFiles>>
aggVars == <<gList, gPerm, gPc, gA, gB>>
snapVars == <<sPage, sScript, sFlow, sPath, sPc, sSnapshot, sMasked, sSent>>
classifyVars == <<kText, kPc, kResult, kProcessed, kPayload>>
overlayVars == <<documentBody, panicOverlayEl, panicAnalyzingTimeout, oDelivered, oShown>>
optionsVars == <<pStored, pSave, pAnswer>>
sendVars == <<tNow, scheduled, tMutations, tRuns, readyState>>
vars == <<guardVars, matchVars, assessVars, requestVars, redactVars, harvestVars, aggVars, snapVars, classifyVars, overlayVars, optionsVars, sendVars>>

null == "null"

(***************************************************************************)
(* Bounds                                                                  *)
(***************************************************************************)
MaxNavs == 2      \* navigation events in one run
MaxTicks == 2     \* clock steps of TickMs in one run
MaxListLen == 2   \* entries of a blacklist drawn as input to the matcher
MaxRequests == 2  \* analysis requests started in one run
MaxPieces == 2    \* pieces a text given to maskPII is put together from
MaxImageUrls == 6 \* image URLs on a page
MaxVideoUrls == 2 \* video URLs on a page

(***************************************************************************)
(* String helpers (String.prototype.toLowerCase / trim / endsWith)         *)
(***************************************************************************)
UpperChars == <<"A","B","C","D","E","F","G","H","I","J","K","L","M",
                "N","O","P","Q","R","S","T","U","V","W","X","Y","Z">>
LowerChars == <<"a","b","c","d","e","f","g","h","i","j","k","l","m",
                "n","o","p","q","r","s","t","u","v","w","x","y","z">>

LowerOfUpper ==
  [c \in {UpperChars[i] : i \in 1..Len(UpperChars)} |->
     LowerChars[CHOOSE i \in 1..Len(UpperChars) : UpperChars[i] = c]]

toLowerCaseChar(c) == IF c \in DOMAIN LowerOfUpper THEN LowerOfUpper[c] ELSE c

toLowerCase(s) == [i \in 1..Len(s) |-> toLowerCaseChar(s[i])]

WhiteSpace == {" ", "\t", "\n"}

SetMin(S) == CHOOSE x \in S : \A y \in S : x <= y
SetMax(S) == CHOOSE x \in S : \A y \in S : x >= y

trim(s) ==
  LET keep == {i \in 1..Len(s) : s[i] \notin WhiteSpace}
  IN IF keep = {} THEN <<>> ELSE SubSeq(s, SetMin(keep), SetMax(keep))

startsWith(s, p) == Len(p) <= Len(s) /\ SubSeq(s, 1, Len(p)) = p
endsWith(s, suf) ==
  Len(suf) <= Len(s) /\ SubSeq(s, Len(s) - Len(suf) + 1, Len(s)) = suf

(***************************************************************************)
(* Host names and blacklist entries used as inputs                         *)
(***************************************************************************)
Dot == <<".">>
s_bad == <<"b","a","d">>
s_com == <<"c","o","m">>
s_org == <<"o","r","g">>
s_sub == <<"s","u","b">>
s_good == <<"g","o","o","d">>
s_www == <<"w","w","w">>
s_mail == <<"m","a","i","l">>
s_google == <<"g","o","o","g","l","e">>
s_notbad == <<"n","o","t","b","a","d">>

h_bad_com == s_bad \o Dot \o s_com
h_sub_bad_com == s_sub \o Dot \o h_bad_com
h_bad_com_good_org == h_bad_com \o Dot \o s_good \o Dot \o s_org
h_notbad_com == s_notbad \o Dot \o s_com
h_google_com == s_google \o Dot \o s_com
h_www_google_com == s_www \o Dot \o h_google_com
h_mail_google_com == s_mail \o Dot \o h_google_com
h_SUB_BAD_COM == <<"S","u","B">> \o Dot \o <<"B","A","D">> \o Dot \o s_com
e_BAD_COM_padded == <<" ">> \o <<"B","a","d">> \o Dot \o <<"C","O","M">> \o <<" ">>
e_blank == <<" ", " ">>

(***************************************************************************)
(* background.js: blacklist cache and host matching                        *)
(***************************************************************************)
BLACKLIST_CACHE_MS == 5 * 60 * 1000
\* The clock advances in steps of half the cache lifetime, so that a cached
\* list is seen at the ages 0, TTL/2 (young) and TTL (just expired).
TickMs == BLACKLIST_CACHE_MS \div 2

\* variant: the suffix test without the '.' boundary
RECURSIVE isHostBlacklistedFrom_NoDot(_, _, _)
isHostBlacklistedFrom_NoDot(h, blacklist, i) ==
  IF i > Len(blacklist) THEN FALSE
  ELSE LET v == trim(toLowerCase(blacklist[i]))
       IN IF v = <<>> THEN isHostBlacklistedFrom_NoDot(h, blacklist, i + 1)
          ELSE IF h = v \/ endsWith(h, v) THEN TRUE
          ELSE isHostBlacklistedFrom_NoDot(h, blacklist, i + 1)

RECURSIVE isHostBlacklistedFrom(_, _, _)
isHostBlacklistedFrom(h, blacklist, i) ==
  IF i > Len(blacklist) THEN FALSE
  ELSE LET v == trim(toLowerCase(blacklist[i]))
       IN IF v = <<>> THEN isHostBlacklistedFrom(h, blacklist, i + 1)
          ELSE IF h = v \/ endsWith(h, Dot \o v) THEN TRUE
          ELSE isHostBlacklistedFrom(h, blacklist, i + 1)

isHostBlacklisted(hostname, blacklist) ==
  IF hostname = <<>> \/ Len(blacklist) = 0 THEN FALSE
  ELSE isHostBlacklistedFrom(toLowerCase(hostname), blacklist, 1)


(* background.js:184-185: the host with a leading "www." removed is       *)
(* google.com or a subdomain of it.                                        *)
hostLower(hostname) ==
  LET l == toLowerCase(hostname)
  IN IF startsWith(l, s_www \o Dot) THEN SubSeq(l, 5, Len(l)) ELSE l

isExemptHost(hostname) ==
  hostLower(hostname) = h_google_com
    \/ endsWith(hostLower(hostname), Dot \o h_google_com)

\* variant: the callback without the exemption of background.js:183-185
blockDecision_NoExemption(hostname, list) == isHostBlacklisted(hostname, list)

(* background.js:175-190: the callback handed to getBlacklist; TRUE when   *)
(* it calls chrome.tabs.update(tabId, {url: blockedPage}).                  *)
blockDecision(hostname, list) ==
  IF isExemptHost(hostname) THEN FALSE
  ELSE isHostBlacklisted(hostname, list)

(* The record of a navigation after cb(list) has run.  When the callback   *)
(* does not redirect, nothing holds the navigation back and the page is    *)
(* requested (if it has not been already).  The key of the fetch URL is    *)
(* kept only while the fetch is in flight.                                 *)
decided(nav, result, list) ==
  LET block == blockDecision(nav.url.hostname, list)
  IN [nav EXCEPT !.st = "done", !.apiKey = <<>>, !.fetchResult = result,
                 !.callbacks = nav.callbacks + 1,
                 !.redirected = block,
                 !.requested = IF block THEN nav.requested ELSE TRUE]

\* variant: a list exactly BLACKLIST_CACHE_MS old still counts as young
cacheIsFresh_Inclusive(cache, t) ==
  cache.hasList /\ (t - cache.at) <= BLACKLIST_CACHE_MS

(* background.js:130: the cached list is used.                             *)
cacheIsFresh(cache, t) ==
  cache.hasList /\ (t - cache.at) < BLACKLIST_CACHE_MS

(***************************************************************************)
(* Inputs of the navigation guard                                          *)
(***************************************************************************)
NavHosts == {h_sub_bad_com, h_www_google_com}
ServerLists == {<<h_bad_com, h_google_com, s_com>>}
\* Caller keys are a device id and a mode suffix; the empty string stands for
\* "no key stored" (data.kidsSafetyApiKey is undefined, and !apiKey holds).
KeyControl == <<"d","1","-","c","o","n","t","r","o","l">>
KeyAgent == <<"d","2","-","a","g","e","n","t">>
StoredPairs == {[key |-> KeyControl, mode |-> "control"],
                [key |-> KeyAgent, mode |-> "agent"]}
NoKey == [key |-> <<>>, mode |-> null]
\* The portal's answer to /api/portal/blacklist/ for a key: the blacklist of a
\* control device, and no entries for a key that is not a control key.
portalBlacklists(apiKey) ==
  IF apiKey = KeyControl THEN ServerLists ELSE {<<>>}
NoUrl == [frameId |-> 0, protocol |-> "", hostname |-> <<>>]
\* blacklistCache = { list: null, at: 0 }: hasList is FALSE while list is null
\* entriesKey (history): the key of the fetch that brought the cached entries,
\* empty while the list holds none
EmptyCache == [hasList |-> FALSE, list |-> <<>>, at |-> 0, entriesKey |-> <<>>]

\* frameId 0 is the top-level frame; "chrome-extension:" is the protocol of
\* the extension's own pages (chrome.runtime.getURL('')).
NavEvents ==
  [frameId : {0}, protocol : {"https:"}, hostname : NavHosts]
    \cup {[frameId |-> 1, protocol |-> "https:", hostname |-> h_sub_bad_com],
          [frameId |-> 0, protocol |-> "chrome-extension:", hostname |-> s_sub]}

\* st: none, ignored, storageGet, fetching, readingBody, done
\* fetchResult (history): how getBlacklist answered: none, cached, ok, failed
\* callbacks (history): how often the callback handed to getBlacklist has run
NoNav == [st |-> "none", url |-> NoUrl, apiKey |-> <<>>, fetchResult |-> "none",
          requested |-> FALSE, redirected |-> FALSE, callbacks |-> 0]

Navs == 1..MaxNavs

InFlight == {n \in Navs : navs[n].st \in {"fetching", "readingBody"}}

InitGuard ==
  /\ now = 0
  /\ storage = NoKey
  /\ blacklistCache = EmptyCache
  /\ navs = [n \in Navs |-> NoNav]
  /\ lastFailAt = -1

InitMatchOff ==
  /\ mHost = <<>>
  /\ mList = <<>>
  /\ mResult = FALSE
  /\ mPc = "off"

NoRequest == [keyValid |-> FALSE, keyProblem |-> "unknown",
              runFactCheck |-> FALSE,
              runMediaCheck |-> FALSE, hasAssets |-> FALSE]
NoResponse == [status |-> "none", fake_media |-> <<>>,
               trust_score_explanation |-> <<>>]

InitAssessOff ==
  /\ aReq = NoRequest
  /\ aPc = "off"
  /\ aOutcomes = [s \in {"fact", "media", "text"} |-> "None"]
  /\ aMediaFlagged = FALSE
  /\ aResponse = NoResponse

NoPage == [text |-> <<>>, imageUrls |-> <<>>]
PopupIdle == [pc |-> "off", apiKey |-> <<>>, reply |-> "none"]
PanicIdle == [pc |-> "off", apiKey |-> <<>>, isControl |-> FALSE,
              harvested |-> <<>>, websiteContent |-> <<>>,
              imageUrls |-> <<>>, overlay |-> "none",
              validation |-> "none", contentRequested |-> FALSE,
              posted |-> FALSE, overlayMessages |-> <<>>]

InitRequestOff ==
  /\ rPage = NoPage
  /\ rPopup = PopupIdle
  /\ rPanic = PanicIdle
  /\ rSent = <<>>

NoRedaction == [masked |-> <<>>, detectedTypes |-> <<>>]

InitRedactOff ==
  /\ xText = <<>>
  /\ xPc = "off"
  /\ xOnce = NoRedaction
  /\ xTwice = NoRedaction

NoCounts == [images |-> 0, videos |-> 0]
NoOutcome == [kind |-> "none", size |-> 0]
NoBlobs == [images |-> <<>>, videos |-> <<>>]

InitHarvestOff ==
  /\ hFlow = "off"
  /\ hPage = NoCounts
  /\ hUrls = NoCounts
  /\ hPc = "off"
  /\ hTried = NoCounts
  /\ hLast = NoOutcome
  /\ hBlobs = NoBlobs
  /\ hFiles = <<>>

NoAssessment == [score |-> 0, explanation |-> <<>>, disputedFacts |-> <<>>,
                 supportedFacts |-> <<>>, flaggedMedia |-> <<>>]

InitAggregateOff ==
  /\ gList = <<>>
  /\ gPerm = <<>>
  /\ gPc = "off"
  /\ gA = NoAssessment
  /\ gB = NoAssessment

NoSnapshot == [text |-> <<>>, mediaUrls |-> <<>>, imageUrls |-> <<>>, videoUrls |-> <<>>]

NoDom == [main |-> <<>>, body |-> <<>>, imgs |-> <<>>, videos |-> <<>>]

InitSnapshotOff ==
  /\ sPage = NoDom
  /\ sScript = "none"
  /\ sFlow = "off"
  /\ sPath = "none"
  /\ sPc = "off"
  /\ sSnapshot = NoSnapshot
  /\ sMasked = <<>>
  /\ sSent = <<>>

NoKeywords == [matchedCategories |-> <<>>, countByCategory |-> <<>>]

NoProcessed == [isNull |-> TRUE, keywords |-> NoKeywords, piiDetected |-> FALSE, piiTypes |-> <<>>]

NoPayload == [sent |-> FALSE, keywords |-> NoKeywords, audio |-> FALSE, video |-> FALSE]

InitClassifyOff ==
  /\ kText = <<>>
  /\ kPc = "off"
  /\ kResult = NoKeywords
  /\ kProcessed = NoProcessed
  /\ kPayload = NoPayload

NoOverlay == [shown |-> FALSE, status |-> "none", button |-> FALSE]

InitOverlayOff ==
  /\ documentBody = FALSE
  /\ panicOverlayEl = NoOverlay
  /\ panicAnalyzingTimeout = FALSE
  /\ oDelivered = 0
  /\ oShown = <<>>

SaveIdle == [pc |-> "off", raw |-> <<>>, mode |-> null]
NoAnswer == [key |-> <<>>, outcome |-> "none", mode |-> null]

InitOptionsOff ==
  /\ pStored = NoKey
  /\ pSave = SaveIdle
  /\ pAnswer = NoAnswer

InitSendOff ==
  /\ tNow = 0
  /\ scheduled = <<>>
  /\ tMutations = {}
  /\ tRuns = <<>>
  /\ readyState = "off"

Init ==
  /\ InitAggregateOff
  /\ InitSnapshotOff
  /\ InitClassifyOff
  /\ InitOverlayOff
  /\ InitOptionsOff
  /\ InitSendOff
  /\ InitGuard /\ InitMatchOff /\ InitAssessOff /\ InitRequestOff
  /\ InitRedactOff /\ InitHarvestOff

(***************************************************************************)
(* Actions of the navigation guard                                         *)
(***************************************************************************)
Tick ==
  /\ now < MaxTicks * TickMs
  /\ now' = now + TickMs
  /\ UNCHANGED <<storage, blacklistCache, navs, lastFailAt, matchVars, assessVars, requestVars, redactVars, harvestVars, aggVars, snapVars, classifyVars, overlayVars, optionsVars, sendVars>>

(* options.js:85-87: the save handler stores the validated key and mode.   *)
StorageSetKey(p) ==
  /\ storage # p
  /\ storage' = p
  /\ UNCHANGED <<now, blacklistCache, navs, lastFailAt, matchVars, assessVars, requestVars, redactVars, harvestVars, aggVars, snapVars, classifyVars, overlayVars, optionsVars, sendVars>>

(* options.js:100-101: the clear button removes key and mode.              *)
StorageRemoveKey ==
  /\ storage # NoKey
  /\ storage' = NoKey
  /\ UNCHANGED <<now, blacklistCache, navs, lastFailAt, matchVars, assessVars, requestVars, redactVars, harvestVars, aggVars, snapVars, classifyVars, overlayVars, optionsVars, sendVars>>

\* variant: the listener without the frameId test of line 384
OnBeforeNavigate_NoFrameCheck(n, ev) ==
  /\ navs[n].st = "none"
  /\ \A m \in Navs : m < n => navs[m].st # "none"
  /\ navs' = [navs EXCEPT ![n] =
        IF ev.protocol \notin {"http:", "https:"}
        THEN [NoNav EXCEPT !.st = "ignored", !.url = ev]
        ELSE [NoNav EXCEPT !.st = "storageGet", !.url = ev]]
  /\ UNCHANGED <<now, storage, blacklistCache, lastFailAt, matchVars, assessVars, requestVars, redactVars, harvestVars, aggVars, snapVars, classifyVars, overlayVars, optionsVars, sendVars>>

(* background.js:383-386 and 163-172: the listener drops sub-frame events, *)
(* checkAndBlockNavigation drops non-http(s) URLs and the extension's own  *)
(* pages, and otherwise issues chrome.storage.local.get.                   *)
OnBeforeNavigate(n, ev) ==
  /\ navs[n].st = "none"
  /\ \A m \in Navs : m < n => navs[m].st # "none"
  /\ navs' = [navs EXCEPT ![n] =
        IF ev.frameId # 0 THEN [NoNav EXCEPT !.st = "ignored", !.url = ev]
        ELSE IF ev.protocol \notin {"http:", "https:"}
        THEN [NoNav EXCEPT !.st = "ignored", !.url = ev]
        ELSE [NoNav EXCEPT !.st = "storageGet", !.url = ev]]
  /\ UNCHANGED <<now, storage, blacklistCache, lastFailAt, matchVars, assessVars, requestVars, redactVars, harvestVars, aggVars, snapVars, classifyVars, overlayVars, optionsVars, sendVars>>

(* The browser goes on with the navigation while the listener's            *)
(* asynchronous work is pending: webNavigation.onBeforeNavigate does not   *)
(* hold the request back.  After tabs.update the tab loads the block page. *)
BrowserRequestsPage(n) ==
  /\ navs[n].st \in {"storageGet", "fetching", "readingBody"}
  /\ ~navs[n].requested
  /\ navs' = [navs EXCEPT ![n].requested = TRUE]
  /\ UNCHANGED <<now, storage, blacklistCache, lastFailAt, matchVars, assessVars, requestVars, redactVars, harvestVars, aggVars, snapVars, classifyVars, overlayVars, optionsVars, sendVars>>

\* variant: the storage callback without the "if (!apiKey) return" of line 174
StorageGetCallback_NoKeyCheck(n) ==
  /\ navs[n].st = "storageGet"
  /\ IF cacheIsFresh(blacklistCache, now)
     THEN navs' = [navs EXCEPT
            ![n] = decided(navs[n], "cached", blacklistCache.list)]
     ELSE navs' = [navs EXCEPT ![n].st = "fetching",
                               ![n].apiKey = storage.key]
  /\ UNCHANGED <<now, storage, blacklistCache, lastFailAt, matchVars, assessVars, requestVars, redactVars, harvestVars, aggVars, snapVars, classifyVars, overlayVars, optionsVars, sendVars>>

(* background.js:172-175 with getBlacklist:128-140: the storage callback.  *)
StorageGetCallback(n) ==
  /\ navs[n].st = "storageGet"
  /\ IF storage.key = <<>>
     THEN navs' = [navs EXCEPT ![n].st = "done", ![n].requested = TRUE]
     ELSE IF cacheIsFresh(blacklistCache, now)
     THEN navs' = [navs EXCEPT
            ![n] = decided(navs[n], "cached", blacklistCache.list)]
     ELSE navs' = [navs EXCEPT ![n].st = "fetching",
                               ![n].apiKey = storage.key]
  /\ UNCHANGED <<now, storage, blacklistCache, lastFailAt, matchVars, assessVars, requestVars, redactVars, harvestVars, aggVars, snapVars, classifyVars, overlayVars, optionsVars, sendVars>>

(* background.js:141-149: the response arrived; a 2xx one is parsed next.  *)
FetchResponseOk(n) ==
  /\ navs[n].st = "fetching"
  /\ navs' = [navs EXCEPT ![n].st = "readingBody"]
  /\ UNCHANGED <<now, storage, blacklistCache, lastFailAt, matchVars, assessVars, requestVars, redactVars, harvestVars, aggVars, snapVars, classifyVars, overlayVars, optionsVars, sendVars>>

(* background.js:142-147, then 150-155 with data undefined: the first      *)
(* handler stores the empty list, calls cb([]) and returns undefined; the  *)
(* second handler runs next with that value, stores the empty list and     *)
(* calls cb(list) again.                                                   *)
FetchResponseNotOk(n) ==
  /\ navs[n].st = "fetching"
  /\ blacklistCache' = [hasList |-> TRUE, list |-> <<>>, at |-> now,
                       entriesKey |-> <<>>]
  /\ navs' = [navs EXCEPT
       ![n] = decided(decided(navs[n], "failed", <<>>), "failed", <<>>)]
  /\ lastFailAt' = now
  /\ UNCHANGED <<now, storage, matchVars, assessVars, requestVars, redactVars, harvestVars, aggVars, snapVars, classifyVars, overlayVars, optionsVars, sendVars>>

\* variant: the catch handler leaves blacklistCache.at as it was
FetchRejected_KeepsStamp(n) ==
  /\ navs[n].st \in {"fetching", "readingBody"}
  /\ blacklistCache' = [hasList |-> TRUE, list |-> <<>>, at |-> blacklistCache.at,
                       entriesKey |-> <<>>]
  /\ navs' = [navs EXCEPT ![n] = decided(navs[n], "failed", <<>>)]
  /\ lastFailAt' = now
  /\ UNCHANGED <<now, storage, matchVars, assessVars, requestVars, redactVars, harvestVars, aggVars, snapVars, classifyVars, overlayVars, optionsVars, sendVars>>

\* variant: a catch handler that swallows the rejection and never calls cb
FetchRejected_NoCallback(n) ==
  /\ navs[n].st \in {"fetching", "readingBody"}
  /\ navs' = [navs EXCEPT ![n].st = "rejected"]
  /\ UNCHANGED <<now, storage, blacklistCache, lastFailAt, matchVars, assessVars, requestVars, redactVars, harvestVars, aggVars, snapVars, classifyVars, overlayVars, optionsVars, sendVars>>

(* background.js:156-160: fetch rejected (network error) or res.json()     *)
(* rejected (unparsable body).                                             *)
FetchRejected(n) ==
  /\ navs[n].st \in {"fetching", "readingBody"}
  /\ blacklistCache' = [hasList |-> TRUE, list |-> <<>>, at |-> now,
                       entriesKey |-> <<>>]
  /\ navs' = [navs EXCEPT ![n] = decided(navs[n], "failed", <<>>)]
  /\ lastFailAt' = now
  /\ UNCHANGED <<now, storage, matchVars, assessVars, requestVars, redactVars, harvestVars, aggVars, snapVars, classifyVars, overlayVars, optionsVars, sendVars>>

\* variant: a completion leaves a list cached by an earlier completion
JsonParsed_FirstWins(n, isArray, blacklist) ==
  /\ navs[n].st = "readingBody"
  /\ LET list == IF isArray THEN blacklist ELSE <<>>
     IN /\ blacklistCache' = IF cacheIsFresh(blacklistCache, now)
                             THEN blacklistCache
                             ELSE [hasList |-> TRUE, list |-> list, at |-> now,
                                   entriesKey |-> IF list # <<>> THEN navs[n].apiKey
                                                  ELSE <<>>]
        /\ navs' = [navs EXCEPT ![n] = decided(navs[n], "ok", list)]
  /\ UNCHANGED <<now, storage, lastFailAt, matchVars, assessVars, requestVars, redactVars, harvestVars, aggVars, snapVars, classifyVars, overlayVars, optionsVars, sendVars>>

(* background.js:150-155: the parsed body; data.blacklist is used when it  *)
(* is an array and the empty list otherwise (isArray is FALSE).            *)
JsonParsed(n, isArray, blacklist) ==
  /\ navs[n].st = "readingBody"
  /\ LET list == IF isArray THEN blacklist ELSE <<>>
     IN /\ blacklistCache' = [hasList |-> TRUE, list |-> list, at |-> now,
                             entriesKey |-> IF list # <<>> THEN navs[n].apiKey
                                            ELSE <<>>]
        /\ navs' = [navs EXCEPT ![n] = decided(navs[n], "ok", list)]
  /\ UNCHANGED <<now, storage, lastFailAt, matchVars, assessVars, requestVars, redactVars, harvestVars, aggVars, snapVars, classifyVars, overlayVars, optionsVars, sendVars>>

NextGuard ==
  \/ Tick
  \/ \E p \in StoredPairs : StorageSetKey(p)
  \/ StorageRemoveKey
  \/ \E n \in Navs, ev \in NavEvents : OnBeforeNavigate(n, ev)
  \/ \E n \in Navs : BrowserRequestsPage(n)
  \/ \E n \in Navs : StorageGetCallback(n)
  \/ \E n \in Navs : FetchResponseOk(n)
  \/ \E n \in Navs : FetchResponseNotOk(n)
  \/ \E n \in Navs : FetchRejected(n)
  \/ \E n \in Navs : \E l \in portalBlacklists(navs[n].apiKey) :
       JsonParsed(n, TRUE, l)
  \/ \E n \in Navs : JsonParsed(n, FALSE, <<>>)

Next == NextGuard

Spec == Init /\ [][Next]_vars

(***************************************************************************)
(* isHostBlacklisted applied to drawn hosts and lists                      *)
(***************************************************************************)
MatchHosts == {<<>>, h_bad_com, h_sub_bad_com, h_bad_com_good_org,
               h_notbad_com, h_SUB_BAD_COM, h_www_google_com, s_com}
MatchEntries == {h_bad_com, e_BAD_COM_padded, e_blank, <<>>, s_com,
                 s_good \o Dot \o s_org, h_google_com}
MatchLists == UNION {[1..k -> MatchEntries] : k \in 0..MaxListLen}

InitMatch ==
  /\ InitGuard
  /\ InitAssessOff
  /\ InitRequestOff
  /\ InitRedactOff
  /\ InitHarvestOff
  /\ InitAggregateOff
  /\ InitSnapshotOff
  /\ InitClassifyOff
  /\ InitOverlayOff
  /\ InitOptionsOff
  /\ InitSendOff
  /\ mHost \in MatchHosts
  /\ mList \in MatchLists
  /\ mResult = FALSE
  /\ mPc = "start"

ApplyMatch ==
  /\ mPc = "start"
  /\ mResult' = isHostBlacklisted(mHost, mList)
  /\ mPc' = "done"
  /\ UNCHANGED <<mHost, mList, guardVars, assessVars, requestVars, redactVars, harvestVars, aggVars, snapVars, classifyVars, overlayVars, optionsVars, sendVars>>

NextMatch == ApplyMatch

SpecMatch == InitMatch /\ [][NextMatch]_vars

(***************************************************************************)
(* The gateway's assess (TrustOrchestrator), modelled from spec.md 4.5, 5  *)
(* and 7: its code is not among the sources.                               *)
(***************************************************************************)
Services == {"fact", "media", "text"}

\* spec.md 4.5: what the validation of the caller key (format, then backend
\* lookup) finds wrong with it; "none" for a valid key of the right mode.
KeyProblems == {"none", "malformed", "unknown", "wrongMode"}

\* spec.md 4.5: a service is called when its flag is set and its input is
\* present; the text-origin detector reads the text of every request.
enabledServices(req) ==
  {s \in Services :
     \/ s = "text"
     \/ s = "fact" /\ req.runFactCheck
     \/ s = "media" /\ req.runMediaCheck /\ req.hasAssets}

\* variant: one failed or timed-out service fails the request
allServicesFailed_AnyFailed(req, outcomes) ==
  \E s \in enabledServices(req) : outcomes[s] \in {"Failed", "TimedOut"}

\* spec.md 7, AllServicesFailed: every enabled service failed.
allServicesFailed(req, outcomes) ==
  \A s \in enabledServices(req) : outcomes[s] \in {"Failed", "TimedOut"}

\* spec.md 4.6: the explanation concatenates one note per service that was
\* called, in a fixed order; fake_media lists what the media service flagged.
explanationOf(outcomes) ==
  LET note(s) == IF outcomes[s] = "Skipped" THEN <<>>
                 ELSE <<[service |-> s, outcome |-> outcomes[s]]>>
  IN note("fact") \o note("media") \o note("text")

assessResponse(req, outcomes, flagged) ==
  IF allServicesFailed(req, outcomes)
  THEN [status |-> "all_services_failed", fake_media |-> <<>>,
        trust_score_explanation |-> <<>>]
  ELSE [status |-> "ok",
        fake_media |-> IF outcomes["media"] = "Success" /\ flagged
                       THEN <<"media">> ELSE <<>>,
        trust_score_explanation |-> explanationOf(outcomes)]

InitAssess ==
  /\ InitGuard
  /\ InitMatchOff
  /\ InitRequestOff
  /\ InitRedactOff
  /\ InitHarvestOff
  /\ InitAggregateOff
  /\ InitSnapshotOff
  /\ InitClassifyOff
  /\ InitOverlayOff
  /\ InitOptionsOff
  /\ InitSendOff
  /\ aReq \in {r \in [keyValid : BOOLEAN, keyProblem : KeyProblems,
                         runFactCheck : BOOLEAN, runMediaCheck : BOOLEAN,
                         hasAssets : BOOLEAN] :
                 r.keyValid = (r.keyProblem = "none")}
  /\ aPc = "start"
  /\ aOutcomes = [s \in Services |-> "None"]
  /\ aMediaFlagged = FALSE
  /\ aResponse = NoResponse

\* variant: the service calls are issued before the key has been validated
ValidateCallerKey_FanOutFirst ==
  /\ aPc = "start"
  /\ aOutcomes' = [s \in Services |->
       IF s \in enabledServices(aReq) THEN "Pending" ELSE "Skipped"]
  /\ IF aReq.keyValid
     THEN /\ aPc' = "fanout"
          /\ UNCHANGED aResponse
     ELSE /\ aPc' = "done"
          /\ aResponse' = [NoResponse EXCEPT !.status = "auth_error"]
  /\ UNCHANGED <<aReq, aMediaFlagged, guardVars, matchVars, requestVars, redactVars, harvestVars, aggVars, snapVars, classifyVars, overlayVars, optionsVars, sendVars>>

\* spec.md 4.5: the caller key is validated first; an invalid key fails fast.
ValidateCallerKey ==
  /\ aPc = "start"
  /\ IF aReq.keyValid
     THEN /\ aPc' = "fanout"
          /\ aOutcomes' = [s \in Services |->
               IF s \in enabledServices(aReq) THEN "Pending" ELSE "Skipped"]
          /\ UNCHANGED aResponse
     ELSE /\ aPc' = "done"
          /\ aResponse' = [NoResponse EXCEPT !.status = "auth_error"]
          /\ UNCHANGED aOutcomes
  /\ UNCHANGED <<aReq, aMediaFlagged, guardVars, matchVars, requestVars, redactVars, harvestVars, aggVars, snapVars, classifyVars, overlayVars, optionsVars, sendVars>>

\* spec.md 4.5: each call ends on its own as Success, Failed or TimedOut.
ServiceSettles(s, outcome, flagged) ==
  /\ aPc = "fanout"
  /\ aOutcomes[s] = "Pending"
  /\ aOutcomes' = [aOutcomes EXCEPT ![s] = outcome]
  /\ aMediaFlagged' = IF s = "media" /\ outcome = "Success"
                      THEN flagged ELSE aMediaFlagged
  /\ UNCHANGED <<aReq, aPc, aResponse, guardVars, matchVars, requestVars, redactVars, harvestVars, aggVars, snapVars, classifyVars, overlayVars, optionsVars, sendVars>>

\* variant: the request deadline passes and pending calls stay pending
RequestDeadline_Ignored ==
  /\ aPc = "fanout"
  /\ \E s \in Services : aOutcomes[s] = "Pending"
  /\ UNCHANGED vars

\* spec.md 5: at the request deadline every pending call counts as TimedOut.
RequestDeadline ==
  /\ aPc = "fanout"
  /\ \E s \in Services : aOutcomes[s] = "Pending"
  /\ aOutcomes' = [s \in Services |->
       IF aOutcomes[s] = "Pending" THEN "TimedOut" ELSE aOutcomes[s]]
  /\ UNCHANGED <<aReq, aPc, aMediaFlagged, aResponse, guardVars, matchVars, requestVars, redactVars, harvestVars, aggVars, snapVars, classifyVars, overlayVars, optionsVars, sendVars>>

\* variant: the aggregator is invoked as soon as one call has settled
Aggregate_OnFirstSettled ==
  /\ aPc = "fanout"
  /\ \E s \in Services : aOutcomes[s] \notin {"Pending", "Skipped"}
  /\ aResponse' = assessResponse(aReq, aOutcomes, aMediaFlagged)
  /\ aPc' = "done"
  /\ UNCHANGED <<aReq, aOutcomes, aMediaFlagged, guardVars, matchVars, requestVars, redactVars, harvestVars, aggVars, snapVars, classifyVars, overlayVars, optionsVars, sendVars>>

\* spec.md 5: once every call has settled the aggregator builds the response.
Aggregate ==
  /\ aPc = "fanout"
  /\ \A s \in Services : aOutcomes[s] # "Pending"
  /\ aResponse' = assessResponse(aReq, aOutcomes, aMediaFlagged)
  /\ aPc' = "done"
  /\ UNCHANGED <<aReq, aOutcomes, aMediaFlagged, guardVars, matchVars, requestVars, redactVars, harvestVars, aggVars, snapVars, classifyVars, overlayVars, optionsVars, sendVars>>

NextAssess ==
  \/ ValidateCallerKey
  \/ \E s \in Services, o \in {"Success", "Failed", "TimedOut"}, f \in BOOLEAN :
       ServiceSettles(s, o, f)
  \/ RequestDeadline
  \/ Aggregate

SpecAssess == InitAssess /\ [][NextAssess]_vars

\* The gateway handles the request it has accepted: validation and the
\* aggregator run when they can, and the deadline timer fires while a call is
\* pending.  Nothing is assumed about the services answering.
SpecAssessFair ==
  /\ SpecAssess
  /\ WF_vars(ValidateCallerKey)
  /\ WF_vars(RequestDeadline)
  /\ WF_vars(Aggregate)

(***************************************************************************)
(* Properties of assess                                                    *)
(***************************************************************************)

\* C2: for a request with a valid key, assess answers with success whenever
\* at least one enabled service succeeded, fails only when every enabled
\* service failed or timed out, and with the media check timed out and the
\* fact check successful the answer has an empty fake_media list and a
\* non-empty explanation naming the fact result.
C2_PartialFailureStillSucceeds ==
  (aPc = "done" /\ aReq.keyValid) =>
    /\ (\E s \in Services : aOutcomes[s] = "Success") => aResponse.status = "ok"
    /\ aResponse.status # "ok" =>
         \A s \in Services : aOutcomes[s] \in {"Failed", "TimedOut", "Skipped"}
    /\ (aOutcomes["media"] = "TimedOut" /\ aOutcomes["fact"] = "Success") =>
         /\ aResponse.status = "ok"
         /\ aResponse.fake_media = <<>>
         /\ \E i \in 1..Len(aResponse.trust_score_explanation) :
              aResponse.trust_score_explanation[i] =
                [service |-> "fact", outcome |-> "Success"]

C2_Witness ==
  /\ aPc = "done"
  /\ aReq.keyValid
  /\ aOutcomes["media"] = "TimedOut"
  /\ aOutcomes["fact"] = "Success"
  /\ aOutcomes["text"] = "Failed"
  /\ aResponse.status = "ok"

Settled == {"Success", "Failed", "TimedOut", "Skipped"}

C19_AggregateAfterAllSettled ==
  [][/\ (aPc = "fanout" /\ aPc' = "done") =>
          /\ \A s \in Services : aOutcomes[s] \in Settled
          /\ aOutcomes' = aOutcomes
     /\ \A s \in Services :
          (aOutcomes[s] = "Pending" /\ aOutcomes'[s] = "Failed") =>
             \A t \in Services \ {s} : aOutcomes'[t] = aOutcomes[t]]_vars

\* the fact check has failed while the media check is still running
C19_Witness ==
  /\ aPc = "fanout"
  /\ aOutcomes["fact"] = "Failed"
  /\ aOutcomes["media"] = "Pending"
  /\ aOutcomes["text"] = "Success"

\* C20: for a request that passes validation every analysis service ends with
\* exactly one outcome among Success, Failed, TimedOut and Skipped (an outcome
\* once recorded never changes, and a call that is pending at the deadline
\* becomes TimedOut), and assess always terminates.
C20_EveryCallSettlesAndAssessEnds ==
  /\ []((aPc = "done" /\ aReq.keyValid) =>
          \A s \in Services : aOutcomes[s] \in Settled)
  /\ [][\A s \in Services :
          /\ aOutcomes[s] \in Settled => aOutcomes'[s] = aOutcomes[s]
          /\ (aOutcomes[s] = "Pending" /\ aOutcomes'[s] # "Pending") =>
               aOutcomes'[s] \in Settled \ {"Skipped"}]_vars
  /\ <>(aPc = "done")

\* the fact check was still pending at the deadline
C20_Witness ==
  /\ aPc = "done"
  /\ aReq.keyValid
  /\ aOutcomes["fact"] = "TimedOut"
  /\ aOutcomes["media"] = "Skipped"
  /\ aOutcomes["text"] = "Success"
  /\ aResponse.status = "ok"

(***************************************************************************)
(* Properties of the navigation guard                                      *)
(***************************************************************************)

\* C3: whenever the guard redirects a tab to the block page, no request for
\* the page of that navigation has been made before the redirect.
C3_RedirectBeforeRequest ==
  \A n \in Navs : navs[n].redirected => ~navs[n].requested

\* C4: at most one blacklist fetch is in flight at any time.
C4_SingleFetchInFlight == Cardinality(InFlight) <= 1

\* C5: with a key stored, a navigation that finds a cached list younger than
\* 5 minutes is decided from the cached entries without a fetch, and a fetch
\* starts only when no list is cached or the cached list is 5 minutes old or
\* older.
C5_FreshCacheNoFetch ==
  [][\A n \in Navs :
       LET young == blacklistCache.hasList
                      /\ now - blacklistCache.at < 5 * 60 * 1000
       IN /\ (navs[n].st = "storageGet" /\ navs'[n].st # "storageGet"
                /\ storage.key # <<>>)
             => IF young
                THEN /\ navs'[n].st = "done"
                     /\ navs'[n].redirected =
                          blockDecision(navs[n].url.hostname, blacklistCache.list)
                     /\ InFlight' = InFlight
                     /\ blacklistCache' = blacklistCache
                ELSE navs'[n].st = "fetching"
          /\ (n \notin InFlight /\ n \in InFlight') => ~young]_vars

C5_Witness ==
  \E n \in Navs :
    /\ navs[n].st = "done"
    /\ navs[n].fetchResult = "cached"
    /\ navs[n].redirected
    /\ blacklistCache.at < now

\* C6: when a blacklist fetch fails, the navigation is not redirected, the
\* cache becomes the empty list stamped with the time of the failure, and no
\* fetch starts during the 5 minutes after the failure.
C6_FailOpenAndBackOff ==
  [][\A n \in Navs :
       /\ (navs[n].fetchResult # "failed" /\ navs'[n].fetchResult = "failed")
          => /\ n \in InFlight
             /\ navs'[n].st = "done"
             /\ ~navs'[n].redirected
             /\ blacklistCache' = [hasList |-> TRUE, list |-> <<>>, at |-> now,
                       entriesKey |-> <<>>]
             /\ lastFailAt' = now
       /\ (n \notin InFlight /\ n \in InFlight')
          => (lastFailAt = -1 \/ now - lastFailAt >= 5 * 60 * 1000)]_vars

C6_Witness ==
  /\ lastFailAt >= 0
  /\ now > lastFailAt
  /\ blacklistCache = [hasList |-> TRUE, list |-> <<>>, at |-> lastFailAt,
                     entriesKey |-> <<>>]
  /\ \E n, m \in Navs :
       /\ navs[n].fetchResult = "failed"
       /\ navs[m].st = "done"
       /\ navs[m].fetchResult = "cached"
       /\ ~navs[m].redirected

\* C7: a navigation event whose key lookup finds no caller key starts no
\* blacklist fetch, leaves the blacklist cache unchanged and does not
\* redirect the tab.
C7_NoKeyStaysIdle ==
  [][\A n \in Navs :
       (navs[n].st = "storageGet" /\ navs'[n].st # "storageGet"
          /\ storage.key = <<>>)
       => /\ navs'[n].st = "done"
          /\ navs'[n].fetchResult = "none"
          /\ ~navs'[n].redirected
          /\ InFlight' = InFlight
          /\ blacklistCache' = blacklistCache]_vars

C7_Witness ==
  \E n \in Navs :
    /\ navs[n].st = "done"
    /\ navs[n].fetchResult = "none"
    /\ navs[n].url.hostname = h_sub_bad_com
    /\ blacklistCache.hasList
    /\ blacklistCache.list = <<h_bad_com, h_google_com, s_com>>
    /\ ~navs[n].redirected

\* C9: a navigation to google.com or to a subdomain of it is never
\* redirected to the block page, whatever the blacklist holds.
C9_ExemptHostNeverBlocked ==
  \A n \in Navs :
    LET h == navs[n].url.hostname
    IN (h = h_google_com
          \/ (Len(h) > Len(h_google_com) + 1
                /\ SubSeq(h, Len(h) - Len(h_google_com), Len(h))
                     = Dot \o h_google_com))
       => ~navs[n].redirected

C9_Witness ==
  \E n, m \in Navs :
    /\ navs[n].st = "done"
    /\ navs[n].url.hostname = h_www_google_com
    /\ navs[n].fetchResult = "ok"
    /\ blacklistCache.list = <<h_bad_com, h_google_com, s_com>>
    /\ ~navs[n].redirected
    /\ navs[m].st = "done"
    /\ navs[m].url.hostname = h_www_google_com
    /\ navs[m].fetchResult = "cached"
    /\ ~navs[m].redirected

\* C10: a navigation is redirected to the block page only while the stored
\* mode is control.
C10_RedirectOnlyInControlMode ==
  [][\A n \in Navs :
       (~navs[n].redirected /\ navs'[n].redirected)
       => storage.mode = "control"]_vars

\* C11: last fetch wins: every completion of a blacklist fetch overwrites the
\* cache with the list it obtained (the empty list for a failure) and the time
\* of the completion, also when fetches overlap, and nothing else writes the
\* cache; so after overlapping fetches the cache is what the last completion
\* wrote.
C11_LastFetchWins ==
  [][LET completed == {n \in Navs : n \in InFlight /\ navs'[n].st = "done"}
     IN /\ \A n \in completed :
             /\ blacklistCache'.hasList
             /\ blacklistCache'.at = now
             /\ blacklistCache'.list \in
                  (IF navs'[n].fetchResult = "ok"
                   THEN portalBlacklists(navs[n].apiKey) ELSE {}) \cup {<<>>}
             /\ navs'[n].fetchResult = "failed" => blacklistCache'.list = <<>>
             /\ navs'[n].redirected =
                  blockDecision(navs[n].url.hostname, blacklistCache'.list)
        /\ completed = {} => blacklistCache' = blacklistCache]_vars

\* two fetches overlapped (both completed within the same instant of a cache
\* that was empty): the first failed, the second wrote the portal's list
C11_Witness ==
  /\ now = 0
  /\ navs[1].fetchResult = "failed"
  /\ navs[2].fetchResult = "ok"
  /\ navs[2].redirected
  /\ blacklistCache = [hasList |-> TRUE,
                       list |-> <<h_bad_com, h_google_com, s_com>>, at |-> 0,
                       entriesKey |-> KeyControl]

(***************************************************************************)
(* Properties of isHostBlacklisted                                         *)
(***************************************************************************)

\* C8: isHostBlacklisted(host, list) is true exactly when some entry e of the
\* list, trimmed and lower-cased and not empty, equals the lower-cased host or
\* is preceded by a '.' at the end of the lower-cased host; with the list
\* {bad.com}, sub.bad.com matches and bad.com.good.org does not.
C8_MatchExactOrDotSuffix ==
  mPc = "done" =>
    /\ mResult =
         (\E i \in 1..Len(mList) :
            LET e == toLowerCase(trim(mList[i]))
                h == toLowerCase(mHost)
            IN /\ e # <<>>
               /\ \/ h = e
                  \/ \E k \in 1..Len(h) :
                       /\ h[k] = "."
                       /\ SubSeq(h, k + 1, Len(h)) = e)
    /\ (mHost = h_sub_bad_com /\ mList = <<h_bad_com>>) => mResult
    /\ (mHost = h_bad_com_good_org /\ mList = <<h_bad_com>>) => ~mResult

C8_Witness ==
  /\ mPc = "done"
  /\ mHost = h_sub_bad_com
  /\ mList = <<h_bad_com>>
  /\ mResult

(***************************************************************************)
(* lib/pii.js: the PII patterns and maskPII.                               *)
(*                                                                         *)
(* A regular expression is a tree of nodes; matchNode returns the end      *)
(* positions the JavaScript backtracking matcher would try, in its order   *)
(* of preference (greedy quantifiers take the longer alternative first),   *)
(* so the first element is the match that String.prototype.replace uses.   *)
(***************************************************************************)
UpperOfLower ==
  [c \in {LowerChars[i] : i \in 1..Len(LowerChars)} |->
     UpperChars[CHOOSE i \in 1..Len(LowerChars) : LowerChars[i] = c]]

Digits == {"0","1","2","3","4","5","6","7","8","9"}
DigitChars == <<"0","1","2","3","4","5","6","7","8","9">>
Upper == DOMAIN LowerOfUpper
Lower == DOMAIN UpperOfLower
Alpha == Upper \cup Lower
WordChars == Alpha \cup Digits \cup {"_"}

chars(S) == [t |-> "chars", cs |-> S]
lit(c) == chars({c})
seq(xs) == [t |-> "seq", xs |-> xs]
alt(xs) == [t |-> "alt", xs |-> xs]
\* x{min,max}, greedy; max = -1 stands for no upper limit
rep(x, min, max) == [t |-> "rep", x |-> x, min |-> min, max |-> max]
opt(x) == rep(x, 0, 1)
plus(x) == rep(x, 1, -1)
star(x) == rep(x, 0, -1)
wordBoundary == [t |-> "b"]
\* a literal word; under the i flag each letter matches in both cases
word(w, ignoreCase) ==
  seq([i \in 1..Len(w) |->
        IF ignoreCase /\ w[i] \in Lower
        THEN chars({w[i], UpperOfLower[w[i]]}) ELSE lit(w[i])])

isWordAt(s, i) == i >= 1 /\ i <= Len(s) /\ s[i] \in WordChars

RECURSIVE matchNode(_, _, _)
RECURSIVE matchSeq(_, _, _, _)
RECURSIVE matchSeqEach(_, _, _, _, _)
RECURSIVE matchAlt(_, _, _, _)
RECURSIVE matchRep(_, _, _, _)
RECURSIVE matchRepEach(_, _, _, _, _, _)

\* i is the index of the next character to consume (1..Len(s)+1)
matchNode(n, s, i) ==
  CASE n.t = "chars" -> IF i <= Len(s) /\ s[i] \in n.cs THEN <<i + 1>> ELSE <<>>
    [] n.t = "b" -> IF isWordAt(s, i - 1) # isWordAt(s, i) THEN <<i>> ELSE <<>>
    [] n.t = "seq" -> matchSeq(n.xs, 1, s, i)
    [] n.t = "alt" -> matchAlt(n.xs, 1, s, i)
    [] n.t = "rep" -> matchRep(n, 0, s, i)

matchSeq(xs, k, s, i) ==
  IF k > Len(xs) THEN <<i>>
  ELSE matchSeqEach(xs, k, s, matchNode(xs[k], s, i), 1)

matchSeqEach(xs, k, s, ends, j) ==
  IF j > Len(ends) THEN <<>>
  ELSE matchSeq(xs, k + 1, s, ends[j]) \o matchSeqEach(xs, k, s, ends, j + 1)

matchAlt(xs, k, s, i) ==
  IF k > Len(xs) THEN <<>>
  ELSE matchNode(xs[k], s, i) \o matchAlt(xs, k + 1, s, i)

matchRep(n, count, s, i) ==
  (IF n.max = -1 \/ count < n.max
   THEN matchRepEach(n, count, s, i, matchNode(n.x, s, i), 1) ELSE <<>>)
  \o (IF count >= n.min THEN <<i>> ELSE <<>>)

matchRepEach(n, count, s, i, ends, j) ==
  IF j > Len(ends) THEN <<>>
  ELSE (IF ends[j] > i THEN matchRep(n, count + 1, s, ends[j]) ELSE <<>>)
       \o matchRepEach(n, count, s, i, ends, j + 1)

\* RegExp.prototype.test
test(re, s) == \E i \in 1..(Len(s) + 1) : matchNode(re, s, i) # <<>>

RECURSIVE decimal(_)
decimal(n) ==
  IF n < 10 THEN <<DigitChars[n + 1]>>
  ELSE decimal(n \div 10) \o <<DigitChars[(n % 10) + 1]>>

\* String.prototype.replace with a g-flagged pattern and the callback of
\* maskPII: matches are taken left to right without overlap, the k-th match
\* becomes placeholder + k.  pos is where the unmatched text to copy starts,
\* i the next start position to try.
RECURSIVE replaceFrom(_, _, _, _, _, _)
replaceFrom(s, re, placeholder, pos, i, counter) ==
  IF i > Len(s) + 1 THEN SubSeq(s, pos, Len(s))
  ELSE LET ends == matchNode(re, s, i)
       IN IF ends = <<>>
          THEN replaceFrom(s, re, placeholder, pos, i + 1, counter)
          ELSE SubSeq(s, pos, i - 1) \o placeholder \o decimal(counter + 1)
               \o replaceFrom(s, re, placeholder, ends[1],
                              IF ends[1] > i THEN ends[1] ELSE i + 1,
                              counter + 1)

d == chars(Digits)
sep == chars({"-", "."} \cup WhiteSpace)
spaceOrDash == chars(WhiteSpace \cup {"-"})
ws == chars(WhiteSpace)
capitalized == seq(<<chars(Upper), plus(chars(Lower))>>)

PII_PATTERNS == <<
  [name |-> "email",
   regex |-> seq(<<plus(chars(Alpha \cup Digits \cup {".", "_", "%", "+", "-"})),
                   lit("@"),
                   plus(chars(Alpha \cup Digits \cup {".", "-"})),
                   lit("."),
                   rep(chars(Alpha), 2, -1)>>),
   placeholder |-> <<"E","M","A","I","L">>],
  [name |-> "phone",
   regex |-> seq(<<opt(seq(<<opt(lit("+")), rep(d, 1, 3), opt(sep)>>)),
                   opt(lit("(")), rep(d, 2, 4), opt(lit(")")), opt(sep),
                   rep(d, 2, 4), opt(sep), rep(d, 2, 4),
                   opt(seq(<<opt(sep), rep(d, 2, 4)>>))>>),
   placeholder |-> <<"P","H","O","N","E">>],
  [name |-> "ssn",
   regex |-> seq(<<wordBoundary, rep(d, 3, 3), lit("-"), rep(d, 2, 2),
                   lit("-"), rep(d, 4, 4), wordBoundary>>),
   placeholder |-> <<"S","S","N">>],
  [name |-> "credit_card",
   regex |-> seq(<<wordBoundary, rep(d, 4, 4), opt(spaceOrDash),
                   rep(d, 4, 4), opt(spaceOrDash), rep(d, 4, 4),
                   opt(spaceOrDash), rep(d, 4, 4), wordBoundary>>),
   placeholder |-> <<"C","A","R","D">>],
  [name |-> "address_like",
   regex |-> seq(<<wordBoundary, rep(d, 1, 6), plus(ws),
                   rep(chars(WordChars \cup WhiteSpace), 3, 40),
                   alt(<<word(<<"s","t","r","e","e","t">>, TRUE), word(<<"s","t">>, TRUE),
                         word(<<"a","v","e","n","u","e">>, TRUE), word(<<"a","v","e">>, TRUE),
                         word(<<"r","o","a","d">>, TRUE), word(<<"r","d">>, TRUE),
                         word(<<"d","r","i","v","e">>, TRUE), word(<<"d","r">>, TRUE),
                         word(<<"l","a","n","e">>, TRUE), word(<<"l","n">>, TRUE),
                         word(<<"w","a","y">>, TRUE), word(<<"b","l","v","d">>, TRUE)>>),
                   wordBoundary>>),
   placeholder |-> <<"A","D","D","R","E","S","S">>],
  [name |-> "name",
   regex |-> seq(<<wordBoundary,
                   opt(alt(<<word(<<"M","r",".">>, FALSE), word(<<"M","r","s",".">>, FALSE),
                             word(<<"M","s",".">>, FALSE), word(<<"D","r",".">>, FALSE)>>)),
                   star(ws), capitalized,
                   plus(seq(<<plus(ws), capitalized>>)),
                   wordBoundary>>),
   placeholder |-> <<"N","A","M","E">>] >>

\* a loop that adds every category to detectedTypes, matched or not
RECURSIVE maskFrom_MarksWithoutMatch(_, _, _)
maskFrom_MarksWithoutMatch(masked, detectedTypes, k) ==
  IF k > Len(PII_PATTERNS)
  THEN [masked |-> masked, detectedTypes |-> detectedTypes]
  ELSE LET p == PII_PATTERNS[k]
       IN maskFrom_MarksWithoutMatch(
            replaceFrom(masked, p.regex, p.placeholder, 1, 1, 0),
            Append(detectedTypes, p.name), k + 1)

RECURSIVE maskFrom(_, _, _)
maskFrom(masked, detectedTypes, k) ==
  IF k > Len(PII_PATTERNS)
  THEN [masked |-> masked, detectedTypes |-> detectedTypes]
  ELSE LET p == PII_PATTERNS[k]
       IN maskFrom(replaceFrom(masked, p.regex, p.placeholder, 1, 1, 0),
                   IF test(p.regex, masked)
                   THEN Append(detectedTypes, p.name) ELSE detectedTypes,
                   k + 1)

maskPII(text) ==
  IF text = <<>> THEN [masked |-> <<>>, detectedTypes |-> <<>>]
  ELSE maskFrom(text, <<>>, 1)

\* String.prototype.slice(0, n)
slice(s, n) == SubSeq(s, 1, IF Len(s) < n THEN Len(s) ELSE n)

(***************************************************************************)
(* The two paths that send an analysis request to the gateway:             *)
(* popup.js sendToAgent and background.js runPanicFlow.                    *)
(*                                                                         *)
(* The pages drawn carry image URLs only (no videos), so nVid is 0 and     *)
(* allMediaUrls is the image list.  lib/pii.js is taken to be loaded in    *)
(* the popup (it registers KIDS_SAFETY_PII on globalThis), so sendToAgent  *)
(* takes the maskPII branch.                                               *)
(***************************************************************************)
t_plain == <<"h","i">>
t_padded == <<" ","o","k"," ">>
t_email == <<"a","@","b",".","c","o">>
t_name == <<"A","l"," ","B","o">>
t_phone == <<"5","5","5","-","1","2","3","4">>
PageTexts == {<<>>, t_plain, t_padded, t_email, t_name, t_phone}
u_img == <<"h","t","t","p",":","/","/","a","/","i",".","p","n","g">>
Pages == [text : PageTexts, imageUrls : {<<>>, <<u_img>>}]

MediaUrlsNote == <<"\n","\n","M","e","d","i","a"," ","U","R","L","s"," ","o","n"," ","t","h","i","s"," ","p","a","g","e",":","\n">>
NoTextNote == <<"P","a","g","e"," ","h","a","s"," ","n","o"," ","e","x","t","r","a","c","t","a","b","l","e"," ","t","e","x","t","."," ">>
AttachedNote(nImg, nVid) ==
  <<"A","t","t","a","c","h","e","d"," ","f","i","l","e","s",":"," ">> \o decimal(nImg) \o <<" ","i","m","a","g","e","(","s",")",","," ">>
  \o decimal(nVid) \o <<" ","v","i","d","e","o","(","s",")",".">>

\* Array.prototype.join
RECURSIVE join(_, _)
join(xs, glue) ==
  IF Len(xs) = 0 THEN <<>>
  ELSE IF Len(xs) = 1 THEN xs[1]
  ELSE xs[1] \o glue \o join(Tail(xs), glue)

\* popup.js sendToAgent: pageText to the website_content of the JSON body
popupWebsiteContent(pageText, allMediaUrls) ==
  LET piiResult == maskPII(pageText)
      maskedText == IF piiResult.masked # <<>> THEN piiResult.masked
                    ELSE pageText
      extracted == slice(maskedText, 12000)
      websiteContent ==
        trim(extracted)
        \o (IF Len(allMediaUrls) > 0
            THEN MediaUrlsNote \o join(slice(allMediaUrls, 20), <<"\n">>)
            ELSE <<>>)
  IN slice(websiteContent, 50000)

\* background.js runPanicFlow: the text taken from the content script's answer
panicWebsiteContent(text) == slice(trim(text), 12000)

\* background.js runPanicFlow and buildAgentRunFormData: the website_content
\* form field once the media have been fetched
panicFormContent(websiteContent, nImg, nVid) ==
  LET withNote ==
        IF nImg > 0 \/ nVid > 0
        THEN (IF websiteContent # <<>> THEN websiteContent \o <<"\n", "\n">>
              ELSE NoTextNote) \o AttachedNote(nImg, nVid)
        ELSE websiteContent
  IN trim(slice(withNote, 50000))

\* The portal's answer to /api/portal/validate/ names the mode of the device the
\* key belongs to.
portalMode(apiKey) == IF apiKey = KeyControl THEN "control" ELSE "agent"

requestsStarted ==
  Len(rSent)
  + (IF rPopup.pc = "reading" THEN 1 ELSE 0)
  + (IF rPanic.pc \in {"validating", "reading", "fetchingMedia"} THEN 1 ELSE 0)

InitRequest ==
  /\ now = 0
  /\ storage \in {NoKey} \cup StoredPairs
  /\ blacklistCache = EmptyCache
  /\ navs = [n \in Navs |-> NoNav]
  /\ lastFailAt = -1
  /\ InitMatchOff
  /\ InitAssessOff
  /\ InitRedactOff
  /\ InitHarvestOff
  /\ InitAggregateOff
  /\ InitSnapshotOff
  /\ InitClassifyOff
  /\ InitOverlayOff
  /\ InitOptionsOff
  /\ InitSendOff
  /\ rPage \in Pages
  /\ rPopup = [PopupIdle EXCEPT !.pc = "idle"]
  /\ rPanic = [PanicIdle EXCEPT !.pc = "idle"]
  /\ rSent = <<>>

\* popup.js: the Send button; sendToAgent up to its first await on the page
PopupSendClicked ==
  /\ rPopup.pc = "idle"
  /\ requestsStarted < MaxRequests
  /\ rPopup' = IF storage.key = <<>>
               THEN [rPopup EXCEPT !.reply = "keyMissing"]
               ELSE [pc |-> "reading", apiKey |-> storage.key,
                     reply |-> "reading"]
  /\ UNCHANGED <<rPage, rPanic, rSent, guardVars, matchVars, assessVars, redactVars, harvestVars, aggVars, snapVars, classifyVars, overlayVars, optionsVars, sendVars>>

\* popup.js sendToAgent: the page content arrives; the text is masked, the
\* body is built and posted
PopupContentRead ==
  /\ rPopup.pc = "reading"
  /\ LET pageText == trim(rPage.text)
     IN IF pageText = <<>>
        THEN /\ rPopup' = [rPopup EXCEPT !.pc = "idle", !.reply = "noPageText"]
             /\ UNCHANGED rSent
        ELSE /\ rSent' = Append(rSent,
                  [path |-> "popup", harvested |-> rPage.text,
                   website_content |->
                     popupWebsiteContent(pageText, rPage.imageUrls),
                   send_fact_check |-> FALSE])
             /\ rPopup' = [rPopup EXCEPT !.pc = "awaitingGateway",
                                         !.reply = "sending"]
  /\ UNCHANGED <<rPage, rPanic, guardVars, matchVars, assessVars, redactVars, harvestVars, aggVars, snapVars, classifyVars, overlayVars, optionsVars, sendVars>>

\* popup.js sendToAgent: the gateway's answer, or the fetch failing
PopupGatewayResponds(outcome) ==
  /\ rPopup.pc = "awaitingGateway"
  /\ rPopup' = [rPopup EXCEPT !.pc = "idle", !.reply = outcome]
  /\ UNCHANGED <<rPage, rPanic, rSent, guardVars, matchVars, assessVars, redactVars, harvestVars, aggVars, snapVars, classifyVars, overlayVars, optionsVars, sendVars>>

\* background.js sendOverlay: a message to the tab's overlay
overlayMessage(type, status, message) ==
  [type |-> type, status |-> status, message |-> message]

\* background.js: the PANIC_REQUEST message; runPanicFlow up to the
\* validation fetch
PanicRequest ==
  /\ rPanic.pc = "idle"
  /\ requestsStarted < MaxRequests
  /\ rPanic' = IF storage.key = <<>>
               THEN [PanicIdle EXCEPT
                       !.pc = "idle", !.overlay = "noKey",
                       !.overlayMessages =
                         <<overlayMessage("UPDATE_PANIC_OVERLAY", "error",
                                          "No API key set.")>>]
               ELSE [PanicIdle EXCEPT
                       !.pc = "validating",
                       !.apiKey = storage.key,
                       !.overlay = "analyzing",
                       !.validation = "pending",
                       !.overlayMessages =
                         <<overlayMessage("SHOW_PANIC_OVERLAY", "analyzing",
                                          "")>>]
  /\ UNCHANGED <<rPage, rPopup, rSent, guardVars, matchVars, assessVars, redactVars, harvestVars, aggVars, snapVars, classifyVars, overlayVars, optionsVars, sendVars>>

\* variant: the flow goes on to the page content whatever the portal said
PanicValidateResponds_NoReturn(valid, mode) ==
  /\ rPanic.pc = "validating"
  /\ rPanic' = [rPanic EXCEPT
                  !.pc = "reading",
                  !.isControl = (mode = "control"),
                  !.validation = IF ~valid \/ mode = null
                                 THEN "invalid" ELSE "valid",
                  !.contentRequested = TRUE]
  /\ UNCHANGED <<rPage, rPopup, rSent, guardVars, matchVars, assessVars, redactVars, harvestVars, aggVars, snapVars, classifyVars, overlayVars, optionsVars, sendVars>>

\* runPanicFlow: the portal's answer to the validation of the key. On an
\* invalid answer the handler sends the error update and returns undefined;
\* the next handler of the chain reads payload.content of that undefined
\* value, the TypeError skips the remaining handlers and reaches the final
\* catch, which sends a second error update carrying the TypeError's message.
\* On a valid answer GET_PAGE_CONTENT_WITH_MEDIA is sent to the tab.
PanicValidateResponds(valid, mode) ==
  /\ rPanic.pc = "validating"
  /\ rPanic' = IF ~valid \/ mode = null
               THEN [rPanic EXCEPT
                       !.pc = "idle", !.overlay = "error",
                       !.validation = "invalid",
                       !.overlayMessages = @ \o
                         <<overlayMessage("UPDATE_PANIC_OVERLAY", "error",
                                          "data.error || 'Invalid API key.'"),
                           overlayMessage("UPDATE_PANIC_OVERLAY", "error",
                                          "TypeError: payload is undefined")>>]
               ELSE [rPanic EXCEPT !.pc = "reading",
                                   !.isControl = (mode = "control"),
                                   !.validation = "valid",
                                   !.contentRequested = TRUE]
  /\ UNCHANGED <<rPage, rPopup, rSent, guardVars, matchVars, assessVars, redactVars, harvestVars, aggVars, snapVars, classifyVars, overlayVars, optionsVars, sendVars>>

\* runPanicFlow: the content script's answer to GET_PAGE_CONTENT_WITH_MEDIA
PanicContentReceived ==
  /\ rPanic.pc = "reading"
  /\ rPanic' = [rPanic EXCEPT !.pc = "fetchingMedia",
                              !.harvested = rPage.text,
                              !.websiteContent = panicWebsiteContent(rPage.text),
                              !.imageUrls = rPage.imageUrls]
  /\ UNCHANGED <<rPage, rPopup, rSent, guardVars, matchVars, assessVars, redactVars, harvestVars, aggVars, snapVars, classifyVars, overlayVars, optionsVars, sendVars>>

\* runPanicFlow: fetchMediaUrlsInExtension has settled with nImg images kept;
\* the form is built and posted
PanicMediaFetched(nImg) ==
  /\ rPanic.pc = "fetchingMedia"
  /\ nImg <= Len(rPanic.imageUrls)
  /\ rSent' = Append(rSent,
       [path |-> "panic", harvested |-> rPanic.harvested,
        website_content |-> panicFormContent(rPanic.websiteContent, nImg, 0),
        send_fact_check |-> rPanic.isControl])
  /\ rPanic' = [rPanic EXCEPT !.pc = "awaitingGateway", !.posted = TRUE]
  /\ UNCHANGED <<rPage, rPopup, guardVars, matchVars, assessVars, redactVars, harvestVars, aggVars, snapVars, classifyVars, overlayVars, optionsVars, sendVars>>

\* runPanicFlow: the gateway's answer, or the fetch failing
PanicGatewayResponds(ok) ==
  /\ rPanic.pc = "awaitingGateway"
  /\ rPanic' = [rPanic EXCEPT
                  !.pc = "idle",
                  !.overlay = IF ok THEN "result" ELSE "error",
                  !.overlayMessages = Append(@,
                    IF ok
                    THEN overlayMessage("UPDATE_PANIC_OVERLAY", "result",
                                        "explanation")
                    ELSE overlayMessage("UPDATE_PANIC_OVERLAY", "error",
                                        "Could not get an answer. Try again."))]
  /\ UNCHANGED <<rPage, rPopup, rSent, guardVars, matchVars, assessVars, redactVars, harvestVars, aggVars, snapVars, classifyVars, overlayVars, optionsVars, sendVars>>

\* runPanicFlow: the validation fetch or the message to the tab fails; the
\* final catch sends the error's message
PanicFlowError ==
  /\ rPanic.pc \in {"validating", "reading"}
  /\ rPanic' = [rPanic EXCEPT
                  !.pc = "idle", !.overlay = "error",
                  !.validation = IF rPanic.pc = "validating"
                                 THEN "failed" ELSE @,
                  !.overlayMessages = Append(@,
                    overlayMessage("UPDATE_PANIC_OVERLAY", "error",
                                   "e.message"))]
  /\ UNCHANGED <<rPage, rPopup, rSent, guardVars, matchVars, assessVars, redactVars, harvestVars, aggVars, snapVars, classifyVars, overlayVars, optionsVars, sendVars>>

NextRequest ==
  \/ PopupSendClicked
  \/ PopupContentRead
  \/ \E o \in {"ok", "authError", "error"} : PopupGatewayResponds(o)
  \/ PanicRequest
  \/ \E v \in BOOLEAN :
       PanicValidateResponds(v, IF v THEN portalMode(rPanic.apiKey) ELSE null)
  \/ PanicContentReceived
  \/ \E n \in 0..1 : PanicMediaFetched(n)
  \/ \E ok \in BOOLEAN : PanicGatewayResponds(ok)
  \/ PanicFlowError

SpecRequest == InitRequest /\ [][NextRequest]_vars

(***************************************************************************)
(* Properties of the request paths                                         *)
(***************************************************************************)
\* what the redactor makes of a harvested page text
redactorOutput(harvested) == trim(slice(maskPII(trim(harvested)).masked, 12000))

\* C1: on every path that sends an analysis request (popup sendToAgent and
\* the panic flow) the page text in website_content is the output of maskPII
\* applied to the harvested text: every request sent starts with the redacted
\* text, so none carries page text that has not passed through the redactor.
C1_SentTextIsRedactorOutput ==
  \A k \in 1..Len(rSent) :
    startsWith(rSent[k].website_content, redactorOutput(rSent[k].harvested))

(***************************************************************************)
(* maskPII applied to drawn texts, and applied again to its own output     *)
(***************************************************************************)
t_eiffel == <<"T","h","e"," ","E","i","f","f","e","l"," ","T","o","w","e","r"," ","i","s"," ","i","n"," ","B","e","r","l","i","n","."," ","C","o","n","t","a","c","t"," ","m","e"," ","a","t"," ","a","@","b",".","c","o","m",".">>
e_a_b_com == <<"a","@","b",".","c","o","m">>
TextPieces == {t_plain, t_email, t_name, t_phone, <<"x","@">>, <<".","c","o","m">>, <<"3">>,
               <<"D","r",".">>, <<"w","a","y">>, <<"m","a","i","l"," ","m","e"," ","a","t">>}
Glue == {<<>>, <<" ">>}
RECURSIVE TextsOf(_)
TextsOf(k) ==
  IF k = 0 THEN {<<>>}
  ELSE IF k = 1 THEN TextPieces
  ELSE {t \o g \o p : t \in TextsOf(k - 1), g \in Glue, p \in TextPieces}
RedactTexts == UNION {TextsOf(k) : k \in 0..MaxPieces} \cup {t_eiffel}

InitRedact ==
  /\ InitGuard
  /\ InitMatchOff
  /\ InitAssessOff
  /\ InitRequestOff
  /\ InitHarvestOff
  /\ InitAggregateOff
  /\ InitSnapshotOff
  /\ InitClassifyOff
  /\ InitOverlayOff
  /\ InitOptionsOff
  /\ InitSendOff
  /\ xText \in RedactTexts
  /\ xPc = "start"
  /\ xOnce = NoRedaction
  /\ xTwice = NoRedaction

RedactOnce ==
  /\ xPc = "start"
  /\ xOnce' = maskPII(xText)
  /\ xPc' = "once"
  /\ UNCHANGED <<xText, xTwice, guardVars, matchVars, assessVars, requestVars, harvestVars, aggVars, snapVars, classifyVars, overlayVars, optionsVars, sendVars>>

RedactAgain ==
  /\ xPc = "once"
  /\ xTwice' = maskPII(xOnce.masked)
  /\ xPc' = "twice"
  /\ UNCHANGED <<xText, xOnce, guardVars, matchVars, assessVars, requestVars, harvestVars, aggVars, snapVars, classifyVars, overlayVars, optionsVars, sendVars>>

NextRedact == RedactOnce \/ RedactAgain

SpecRedact == InitRedact /\ [][NextRedact]_vars

(***************************************************************************)
(* Properties of maskPII                                                   *)
(***************************************************************************)
\* s contains sub as a substring
contains(s, sub) ==
  \E i \in 1..(Len(s) - Len(sub) + 1) : SubSeq(s, i, i + Len(sub) - 1) = sub

\* C12: the masked text contains no substring matching a PII pattern, so
\* masking it again detects nothing.
C12_RedactIdempotent ==
  /\ xPc \in {"once", "twice"} =>
       \A k \in 1..Len(PII_PATTERNS) : ~test(PII_PATTERNS[k].regex, xOnce.masked)
  /\ xPc = "twice" => xTwice.detectedTypes = <<>>

\* C13: for a text whose only personally identifying substring is one email
\* address ("The Eiffel Tower is in Berlin. Contact me at a@b.com.", and
\* "mail me at a@b.co"), maskPII returns detectedTypes = [email] and a masked
\* text that does not contain the address.
C13_OnlyEmailDetected ==
  xPc \in {"once", "twice"} =>
    /\ xText = t_eiffel =>
         /\ xOnce.detectedTypes = <<"email">>
         /\ ~contains(xOnce.masked, e_a_b_com)
    /\ xText \in {t_email, <<"m","a","i","l"," ","m","e"," ","a","t">> \o <<" ">> \o t_email} =>
         /\ xOnce.detectedTypes = <<"email">>
         /\ ~contains(xOnce.masked, t_email)

(***************************************************************************)
(* Media harvesting: content.js getPageContentWithMedia (lightweight mode) *)
(* and background.js fetchMediaUrlsInExtension as runPanicFlow calls it.   *)
(*                                                                         *)
(* A URL is its position in the page's list of image (video) URLs, so page *)
(* order is numeric order.  A download ends with a network error, a        *)
(* response that is not 2xx, or a blob of some size.                       *)
(***************************************************************************)
MAX_IMAGES == 5
MAX_IMAGE_BYTES == 2 * 1024 * 1024
MAX_VIDEOS == 1
MAX_VIDEO_BYTES == 5 * 1024 * 1024
MAX_IMAGE_BYTES_BG == 3 * 1024 * 1024
MAX_VIDEO_BYTES_BG == 15 * 1024 * 1024

Min(a, b) == IF a < b THEN a ELSE b

blobOf(size) == [kind |-> "blob", size |-> size]
ImageOutcomes ==
  {[kind |-> "networkError", size |-> 0], [kind |-> "non2xx", size |-> 0],
   blobOf(MAX_IMAGE_BYTES), blobOf(MAX_IMAGE_BYTES + 1),
   blobOf(MAX_IMAGE_BYTES_BG + 1)}
VideoOutcomes ==
  {[kind |-> "networkError", size |-> 0], [kind |-> "non2xx", size |-> 0],
   blobOf(MAX_VIDEO_BYTES), blobOf(MAX_VIDEO_BYTES + 1),
   blobOf(MAX_VIDEO_BYTES_BG + 1)}

\* content.js:124-129: the URL lists of the content script's answer
contentAnswerUrls(page) ==
  [images |-> Min(page.images, 10), videos |-> Min(page.videos, 5)]

\* variant: the download loops of content.js run over every URL
harvestLimits_NoCap(urls) == urls

\* content.js:111 and 117: the bounds of the two download loops
harvestLimits(urls) ==
  [images |-> Min(MAX_IMAGES, urls.images),
   videos |-> Min(MAX_VIDEOS, urls.videos)]

\* background.js:50 and 64: the loops run over every URL given
panicLimits(urls) == urls

loopLimits == IF hFlow = "harvest" THEN harvestLimits(hUrls)
              ELSE panicLimits(hUrls)

\* the loop the function is in once `tried` downloads have been attempted
loopPc(limits, tried) ==
  IF tried.images < limits.images THEN "images"
  ELSE IF tried.videos < limits.videos THEN "videos"
  ELSE "ready"

\* variant: a failed download empties the list collected so far
afterFetch_FailureAborts(blobs, url, o, maxBytes) ==
  IF o.kind = "blob" /\ o.size <= maxBytes
  THEN Append(blobs, [url |-> url, size |-> o.size])
  ELSE <<>>

\* content.js:82-94 with 112-113 (fetchAsBase64 returns null on a failure, a
\* non-2xx response or a blob above maxBytes; a result is pushed) and
\* background.js:52-60, 66-75 (blob && blob.size <= cap; catch -> next URL)
afterFetch(blobs, url, o, maxBytes) ==
  IF o.kind = "blob" /\ o.size <= maxBytes
  THEN Append(blobs, [url |-> url, size |-> o.size])
  ELSE blobs

HarvestFlows == {"harvest", "panic"}

InitHarvest ==
  /\ InitGuard
  /\ InitMatchOff
  /\ InitAssessOff
  /\ InitRequestOff
  /\ InitRedactOff
  /\ InitAggregateOff
  /\ InitSnapshotOff
  /\ InitClassifyOff
  /\ InitOverlayOff
  /\ InitOptionsOff
  /\ InitSendOff
  /\ hFlow \in HarvestFlows
  /\ hPage \in [images : 0..MaxImageUrls, videos : 0..MaxVideoUrls]
  /\ hUrls = IF hFlow = "harvest" THEN hPage ELSE contentAnswerUrls(hPage)
  /\ hPc = loopPc(loopLimits, NoCounts)
  /\ hTried = NoCounts
  /\ hLast = NoOutcome
  /\ hBlobs = NoBlobs
  /\ hFiles = <<>>

\* one iteration of an image loop: the download of the next image URL ends
FetchImage(o, maxBytes) ==
  /\ hPc = "images"
  /\ hLast' = o
  /\ hTried' = [hTried EXCEPT !.images = @ + 1]
  /\ hBlobs' = [hBlobs EXCEPT
       !.images = afterFetch(@, hTried.images + 1, o, maxBytes)]
  /\ hPc' = loopPc(loopLimits, hTried')
  /\ UNCHANGED <<hFlow, hPage, hUrls, hFiles,
                 guardVars, matchVars, assessVars, requestVars, redactVars, aggVars, snapVars, classifyVars, overlayVars, optionsVars, sendVars>>

\* one iteration of a video loop
FetchVideo(o, maxBytes) ==
  /\ hPc = "videos"
  /\ hLast' = o
  /\ hTried' = [hTried EXCEPT !.videos = @ + 1]
  /\ hBlobs' = [hBlobs EXCEPT
       !.videos = afterFetch(@, hTried.videos + 1, o, maxBytes)]
  /\ hPc' = loopPc(loopLimits, hTried')
  /\ UNCHANGED <<hFlow, hPage, hUrls, hFiles,
                 guardVars, matchVars, assessVars, requestVars, redactVars, aggVars, snapVars, classifyVars, overlayVars, optionsVars, sendVars>>

\* content.js:111-115
HarvestFetchImage(o) == hFlow = "harvest" /\ FetchImage(o, MAX_IMAGE_BYTES)
\* content.js:117-120
HarvestFetchVideo(o) == hFlow = "harvest" /\ FetchVideo(o, MAX_VIDEO_BYTES)
\* background.js:49-62
PanicFetchImage(o) == hFlow = "panic" /\ FetchImage(o, MAX_IMAGE_BYTES_BG)
\* background.js:63-77
PanicFetchVideo(o) == hFlow = "panic" /\ FetchVideo(o, MAX_VIDEO_BYTES_BG)

\* content.js:122-129: getPageContentWithMedia returns its snapshot
HarvestReturns ==
  /\ hFlow = "harvest"
  /\ hPc = "ready"
  /\ hPc' = "returned"
  /\ UNCHANGED <<hFlow, hPage, hUrls, hTried, hLast, hBlobs, hFiles,
                 guardVars, matchVars, assessVars, requestVars, redactVars, aggVars, snapVars, classifyVars, overlayVars, optionsVars, sendVars>>

\* background.js:92-110 (buildAgentRunFormData): a file part per blob
formFiles(blobs) ==
  [i \in 1..Len(blobs.images) |->
     [type |-> "image", url |-> blobs.images[i].url,
      size |-> blobs.images[i].size]]
  \o [i \in 1..Len(blobs.videos) |->
        [type |-> "video", url |-> blobs.videos[i].url,
         size |-> blobs.videos[i].size]]

\* background.js:285-316: the fetched blobs go into the form, which is posted
PanicPost ==
  /\ hFlow = "panic"
  /\ hPc = "ready"
  /\ hFiles' = formFiles(hBlobs)
  /\ hPc' = "posted"
  /\ UNCHANGED <<hFlow, hPage, hUrls, hTried, hLast, hBlobs,
                 guardVars, matchVars, assessVars, requestVars, redactVars, aggVars, snapVars, classifyVars, overlayVars, optionsVars, sendVars>>

NextHarvest ==
  \/ \E o \in ImageOutcomes : HarvestFetchImage(o)
  \/ \E o \in VideoOutcomes : HarvestFetchVideo(o)
  \/ HarvestReturns
  \/ \E o \in ImageOutcomes : PanicFetchImage(o)
  \/ \E o \in VideoOutcomes : PanicFetchVideo(o)
  \/ PanicPost

SpecHarvest == InitHarvest /\ [][NextHarvest]_vars

(***************************************************************************)
(* Properties of media harvesting                                          *)
(***************************************************************************)
imageFiles == SelectSeq(hFiles, LAMBDA f : f.type = "image")
videoFiles == SelectSeq(hFiles, LAMBDA f : f.type = "video")

\* C14: every analysis request the client builds carries at most 5 image
\* files and at most 1 video file, whatever the number of image and video
\* URLs on the page.
C14_RequestFileCounts ==
  hPc = "posted" => Len(imageFiles) <= 5 /\ Len(videoFiles) <= 1

\* C15: in lightweight mode the harvester (content.js getPageContentWithMedia)
\* never holds more than 5 image assets or more than 1 video asset, and never
\* an image above 2 MB or a video above 5 MB, for any page and any outcome of
\* the downloads.
C15_HarvesterCaps ==
  hFlow = "harvest" =>
    /\ Len(hBlobs.images) <= 5
    /\ Len(hBlobs.videos) <= 1
    /\ \A i \in 1..Len(hBlobs.images) :
         hBlobs.images[i].size <= 2 * 1024 * 1024
    /\ \A i \in 1..Len(hBlobs.videos) :
         hBlobs.videos[i].size <= 5 * 1024 * 1024

\* a page with more URLs than the caps: 6 image downloads would succeed, 5
\* are returned; the one video attempted was above 5 MB and is left out
C15_Witness ==
  /\ hFlow = "harvest"
  /\ hPc = "returned"
  /\ hPage = [images |-> MaxImageUrls, videos |-> MaxVideoUrls]
  /\ Len(hBlobs.images) = 5
  /\ hBlobs.videos = <<>>
  /\ hLast = blobOf(5 * 1024 * 1024 + 1)

\* C16: in the panic flow an image is attached only if its size is at most
\* 2 MB and a video only if its size is at most 15 MB.
C16_PanicSizeCaps ==
  hPc = "posted" =>
    \A i \in 1..Len(hFiles) :
      /\ hFiles[i].type = "image" => hFiles[i].size <= 2 * 1024 * 1024
      /\ hFiles[i].type = "video" => hFiles[i].size <= 15 * 1024 * 1024

\* C17: the failure of one download is not fatal: whatever the outcome of a
\* download (network error, non-2xx, oversize, success) the asset is appended
\* to the collected list exactly when it was downloaded within the size cap,
\* the assets collected before stay as they were (so the list is in page
\* order), and the snapshot is returned only after every URL within the loop
\* bounds has been attempted.
C17_FailedDownloadExcludesOnlyItself ==
  /\ [](hPc \in {"ready", "returned", "posted"} => hTried = loopLimits)
  /\ [][LET imageCap == IF hFlow = "harvest" THEN MAX_IMAGE_BYTES
                        ELSE MAX_IMAGE_BYTES_BG
            videoCap == IF hFlow = "harvest" THEN MAX_VIDEO_BYTES
                        ELSE MAX_VIDEO_BYTES_BG
            got(cap) == hLast'.kind = "blob" /\ hLast'.size <= cap
        IN /\ hTried'.images # hTried.images =>
                /\ hBlobs'.images =
                     IF got(imageCap)
                     THEN Append(hBlobs.images, [url |-> hTried'.images,
                                                 size |-> hLast'.size])
                     ELSE hBlobs.images
                /\ hBlobs'.videos = hBlobs.videos
           /\ hTried'.videos # hTried.videos =>
                /\ hBlobs'.videos =
                     IF got(videoCap)
                     THEN Append(hBlobs.videos, [url |-> hTried'.videos,
                                                 size |-> hLast'.size])
                     ELSE hBlobs.videos
                /\ hBlobs'.images = hBlobs.images
           /\ hTried' = hTried => hBlobs' = hBlobs]_vars

\* of five images attempted the second and fourth failed, and the video
\* failed: the first, third and fifth image are returned
C17_Witness ==
  /\ hFlow = "harvest"
  /\ hPc = "returned"
  /\ hTried = [images |-> 5, videos |-> 1]
  /\ Len(hBlobs.images) = 3
  /\ hBlobs.images[1].url = 1
  /\ hBlobs.images[2].url = 3
  /\ hBlobs.images[3].url = 5
  /\ hBlobs.videos = <<>>
  /\ hLast.kind = "networkError"

(***************************************************************************)
(* ResultAggregator (spec.md 4.6): aggregate(outcomes) -> TrustAssessment  *)
(***************************************************************************)
MaxMediaItems == 2

HighScore == 80
LowScore == 20
NeutralScore == 50
ScoreFloor == 10
FlagThreshold == 50
ExtremeHigh == 90
ExtremeLow == 10

Max(a, b) == IF a > b THEN a ELSE b

\* the fact service's structured output: quotes tagged true or false
FactLists ==
  { <<>>,
    <<[quote |-> "q1", explanation |-> "e1", flagged |-> "false"]>>,
    <<[quote |-> "q1", explanation |-> "e1", flagged |-> "false"],
      [quote |-> "q2", explanation |-> "e2", flagged |-> "true"]>> }

\* one analysed media item: the label and the strongest segment score, in percent
MediaItems ==
  { [mediaRef |-> "m1", label |-> "deepfake", score |-> 95],
    [mediaRef |-> "m2", label |-> "ai_generated", score |-> 55],
    [mediaRef |-> "m3", label |-> "real", score |-> 5],
    [mediaRef |-> "m4", label |-> "deepfake", score |-> 100] }

SeqsUpTo(S, n) == UNION {[1..k -> S] : k \in 0..n}

MediaLists == SeqsUpTo(MediaItems, MaxMediaItems)

FactOutcomes ==
  {[service |-> "fact", status |-> "Success", truth |-> t, facts |-> f, media |-> <<>>] :
     t \in {"true", "false", "unknown"}, f \in FactLists}
  \cup {[service |-> "fact", status |-> st, truth |-> "none", facts |-> <<>>, media |-> <<>>] :
          st \in {"Failed", "TimedOut", "Skipped"}}

MediaOutcomes ==
  {[service |-> "media", status |-> "Success", truth |-> "none", facts |-> <<>>, media |-> m] :
     m \in MediaLists}
  \cup {[service |-> "media", status |-> st, truth |-> "none", facts |-> <<>>, media |-> <<>>] :
          st \in {"Failed", "TimedOut", "Skipped"}}

TextOutcomes ==
  {[service |-> "text", status |-> st, truth |-> "none", facts |-> <<>>, media |-> <<>>] :
     st \in {"Success", "Failed", "TimedOut", "Skipped"}}

Permutations3 == {p \in [1..3 -> 1..3] : \A i, j \in 1..3 : i # j => p[i] # p[j]}

permute(list, p) == [i \in 1..Len(list) |-> list[p[i]]]


isFlaggedItem(m) == m.label \in {"ai_generated", "deepfake"}

\* what the aggregator has gathered from the outcomes read so far
EmptyGathered ==
  [truth |-> "none", rationale |-> <<>>, facts |-> <<>>,
   mediaSeen |-> FALSE, media |-> <<>>]

\* one outcome read: each service fills its own part; an unsuccessful
\* outcome contributes nothing
gather(acc, o) ==
  IF o.status # "Success" THEN acc
  ELSE IF o.service = "fact"
       THEN [acc EXCEPT !.truth = o.truth, !.rationale = <<"rationale">>,
                        !.facts = o.facts]
  ELSE IF o.service = "media"
       THEN [acc EXCEPT !.mediaSeen = TRUE, !.media = o.media]
  ELSE acc

RECURSIVE gatherFrom(_, _, _)
gatherFrom(list, i, acc) ==
  IF i > Len(list) THEN acc
  ELSE gatherFrom(list, i + 1, gather(acc, list[i]))

\* truth-value true -> high, false -> low, unknown or absent -> neutral
baseScore(truth) ==
  IF truth = "true" THEN HighScore
  ELSE IF truth = "false" THEN LowScore
  ELSE NeutralScore

\* the strongest ai_generated/deepfake segment score across the media
RECURSIVE strongestFrom(_, _, _)
strongestFrom(media, i, best) ==
  IF i > Len(media) THEN best
  ELSE strongestFrom(media, i + 1,
         IF isFlaggedItem(media[i]) THEN Max(best, media[i].score) ELSE best)

strongestSegment(media) == strongestFrom(media, 1, 0)

\* a down-weighting that subtracts without a floor
downWeight_Linear(base, strongest) == base - 2 * strongest

\* down-weighting proportional to the strongest segment score, floored
downWeight(base, strongest) ==
  Max(ScoreFloor, (base * (100 - strongest)) \div 100)

\* the fact check and the media check disagree: one positive, one negative
disagree(truth, strongest) ==
  \/ truth = "true" /\ strongest >= FlagThreshold
  \/ truth = "false" /\ strongest < FlagThreshold

scoreOf(g) ==
  LET base == baseScore(g.truth)
      strongest == strongestSegment(g.media)
      mediaScore == 100 - strongest
  IN IF ~g.mediaSeen THEN base
     ELSE IF disagree(g.truth, strongest)
          THEN IF strongest > ExtremeHigh \/ strongest < ExtremeLow
               THEN mediaScore
               ELSE (base + mediaScore) \div 2
     ELSE downWeight(base, strongest)

assessmentOf(g) ==
  LET flagged == SelectSeq(g.media, isFlaggedItem)
  IN [score |-> scoreOf(g),
      explanation |-> g.rationale \o
                      (IF flagged # <<>> THEN <<"flaggedMediaNote">> ELSE <<>>),
      disputedFacts |-> SelectSeq(g.facts, LAMBDA f : f.flagged = "false"),
      supportedFacts |-> SelectSeq(g.facts, LAMBDA f : f.flagged = "true"),
      flaggedMedia |-> [i \in 1..Len(flagged) |->
                          [mediaRef |-> flagged[i].mediaRef,
                           perSegmentScores |-> <<flagged[i].score>>]]]

\* an aggregator that lets the first successful outcome of the list decide
aggregate_FirstSuccessOnly(outcomes) ==
  LET ok == SelectSeq(outcomes, LAMBDA o : o.status = "Success")
  IN assessmentOf(IF ok = <<>> THEN EmptyGathered ELSE gather(EmptyGathered, ok[1]))

aggregate(outcomes) == assessmentOf(gatherFrom(outcomes, 1, EmptyGathered))

InitAggregate ==
  /\ InitGuard /\ InitMatchOff /\ InitAssessOff /\ InitRequestOff
  /\ InitRedactOff /\ InitHarvestOff
  /\ InitSnapshotOff
  /\ InitClassifyOff
  /\ InitOverlayOff
  /\ InitOptionsOff
  /\ InitSendOff
  /\ \E f \in FactOutcomes, m \in MediaOutcomes, t \in TextOutcomes,
        p \in Permutations3, q \in Permutations3 :
       /\ gList = permute(<<f, m, t>>, p)
       /\ gPerm = permute(gList, q)
  /\ gPc = "start"
  /\ gA = NoAssessment
  /\ gB = NoAssessment

\* the aggregator is applied to the outcome list and to its permutation
Aggregates ==
  /\ gPc = "start"
  /\ gA' = aggregate(gList)
  /\ gB' = aggregate(gPerm)
  /\ gPc' = "done"
  /\ UNCHANGED <<gList, gPerm, guardVars, matchVars, assessVars, requestVars,
                 redactVars, harvestVars, snapVars, classifyVars, overlayVars, optionsVars, sendVars>>

NextAggregate == Aggregates

SpecAggregate == InitAggregate /\ [][NextAggregate]_vars

\* C21: aggregate is commutative over the outcome list: an outcome list and
\* any permutation of it give the same TrustAssessment (same score, same
\* disputed and supported facts, same flagged media)
C21_AggregateCommutative ==
  gPc = "done" =>
    /\ gA = gB
    /\ gA.score = gB.score
    /\ gA.disputedFacts = gB.disputedFacts
    /\ gA.supportedFacts = gB.supportedFacts
    /\ gA.flaggedMedia = gB.flaggedMedia

\* the fact and the media outcome both succeeded with evidence, and the
\* permutation puts them in the opposite order
C21_Witness ==
  /\ gPc = "done"
  /\ gList # gPerm
  /\ gList[1].service = "fact" /\ gList[1].status = "Success"
  /\ Len(gList[1].facts) = 2
  /\ gPerm[1].service = "media" /\ gPerm[1].status = "Success"
  /\ Len(gA.flaggedMedia) = 2
  /\ Len(gA.disputedFacts) = 1
  /\ gA = gB

\* C22: aggregate never fails and always returns an integer score between 0
\* and 100 inclusive, for every outcome list, including the lists where
\* every service is Failed, TimedOut or Skipped and the lists where the
\* fact check and the media check disagree
C22_ScoreAlwaysInRange ==
  /\ gPc = "done" => gA.score \in 0..100 /\ gB.score \in 0..100
  /\ gPc = "start" => ENABLED Aggregates

\* no service succeeded, and a score is returned all the same
C22_Witness ==
  /\ gPc = "done"
  /\ \A i \in 1..3 : gList[i].status \in {"Failed", "TimedOut", "Skipped"}
  /\ gA.score = NeutralScore

\* the fact check says true and the media check flags a deepfake at 95%
C22_WitnessDisagree ==
  /\ gPc = "done"
  /\ \E i, j \in 1..3 :
       /\ gList[i].service = "fact" /\ gList[i].truth = "true"
       /\ gList[j].service = "media" /\ gList[j].status = "Success"
       /\ strongestSegment(gList[j].media) = 95
  /\ gA.score = 5

(***************************************************************************)
(* Page snapshots and website_content by length: a text is a sequence of   *)
(* runs [ch, n], n characters of whitespace ("w") or of other characters   *)
(* ("x"), so that trim, slice and concatenation act as they do on strings  *)
(* of tens of thousands of characters.                                     *)
(* content.js getPageText, getMediaUrls, getPageContentWithMedia;          *)
(* popup.js getPageTextAndMediaUrls, getPageContentWithMedia, sendToAgent; *)
(* background.js runPanicFlow, buildAgentRunFormData                       *)
(***************************************************************************)
MaxDomImages == 2
MaxDomVideos == 1

PAGE_TEXT_LIMIT == 50000
EXTRACT_LIMIT == 12000
MEDIA_URLS_IN_NOTE == 20
IMAGE_URLS_RETURNED == 10
VIDEO_URLS_RETURNED == 5
MAIN_MIN_LENGTH == 100

W(n) == [ch |-> "w", n |-> n]
X(n) == [ch |-> "x", n |-> n]

RECURSIVE textLengthFrom(_, _)
textLengthFrom(t, i) ==
  IF i > Len(t) THEN 0 ELSE t[i].n + textLengthFrom(t, i + 1)

textLength(t) == textLengthFrom(t, 1)

\* String.prototype.slice(0, k)
RECURSIVE textSliceFrom(_, _, _)
textSliceFrom(t, i, k) ==
  IF i > Len(t) \/ k <= 0 THEN <<>>
  ELSE IF t[i].n <= k THEN <<t[i]>> \o textSliceFrom(t, i + 1, k - t[i].n)
  ELSE <<[ch |-> t[i].ch, n |-> k]>>

textSlice(t, k) == textSliceFrom(t, 1, k)

\* String.prototype.trim()
textTrim(t) ==
  LET kept == {i \in 1..Len(t) : t[i].ch # "w"}
  IN IF kept = {} THEN <<>> ELSE SubSeq(t, SetMin(kept), SetMax(kept))

\* the URLs of the page's media elements; u_clip is an image whose URL
\* contains the word video
MediaUrlNames == {"u_pic", "u_long", "u_clip", "u_film"}

urlLength(u) == IF u = "u_long" THEN 40000 ELSE 30

\* content.js: /\.(mp4|webm|ogg|mov|avi|mkv)(\?|$)/.test(lower) || lower.includes('video')
looksLikeVideo(u) == u \in {"u_clip", "u_film"}

urlText(u) == <<X(urlLength(u))>>

RECURSIVE joinLines(_, _)
joinLines(urls, i) ==
  IF i > Len(urls) THEN <<>>
  ELSE urlText(urls[i]) \o (IF i < Len(urls) THEN <<W(1)>> ELSE <<>>)
       \o joinLines(urls, i + 1)

\* new Set(): insertion order, the first occurrence of each URL is kept
RECURSIVE dedupeFrom(_, _, _)
dedupeFrom(urls, i, acc) ==
  IF i > Len(urls) THEN acc
  ELSE dedupeFrom(urls, i + 1,
         IF \E j \in 1..Len(acc) : acc[j] = urls[i] THEN acc
         ELSE Append(acc, urls[i]))

DomTexts ==
  {[before |-> b, main |-> m, after |-> a] :
     b \in {<<>>, <<W(3)>>},
     m \in {<<>>, <<X(50)>>, <<W(2), X(60000), W(1)>>},
     a \in {<<>>, <<X(200), W(4)>>, <<X(49990), W(20), X(5)>>}}

Doms ==
  {[main |-> t.main, body |-> t.before \o t.main \o t.after,
    imgs |-> i, videos |-> v] :
     t \in DomTexts,
     i \in SeqsUpTo({"u_pic", "u_long", "u_clip"}, MaxDomImages),
     v \in SeqsUpTo({"u_clip", "u_film"}, MaxDomVideos)}

\* content.js getPageText
getPageText(dom) ==
  LET el == IF dom.main # <<>> /\ textLength(dom.main) > MAIN_MIN_LENGTH
            THEN dom.main ELSE dom.body
      raw == textTrim(el)
  IN textSlice(IF raw # <<>> THEN raw ELSE textTrim(dom.body), PAGE_TEXT_LIMIT)

\* content.js, the second listener's getPageText
getPageText_second(dom) ==
  textSlice(IF dom.main # <<>> THEN dom.main ELSE dom.body, PAGE_TEXT_LIMIT)

\* content.js getMediaUrls
getMediaUrls(dom) == dedupeFrom(dom.imgs \o dom.videos, 1, <<>>)

\* content.js getPageContentWithMedia, the text and the URL lists
contentScriptAnswer(dom) ==
  LET mediaUrls == getMediaUrls(dom)
  IN [text |-> getPageText(dom),
      mediaUrls |-> mediaUrls,
      imageUrls |-> slice(SelectSeq(mediaUrls, LAMBDA u : ~looksLikeVideo(u)),
                          IMAGE_URLS_RETURNED),
      videoUrls |-> slice(SelectSeq(mediaUrls, looksLikeVideo),
                          VIDEO_URLS_RETURNED)]

\* popup.js getPageContentWithMedia, the GET_PAGE_CONTENT fallback
fallbackAnswer(dom, listener) ==
  [text |-> IF listener = "first" THEN getPageText(dom)
            ELSE getPageText_second(dom),
   mediaUrls |-> getMediaUrls(dom),
   imageUrls |-> <<>>,
   videoUrls |-> <<>>]

\* popup.js getPageTextAndMediaUrls, run in the page by executeScript
getPageTextAndMediaUrls(dom) ==
  LET elIsMain == dom.main # <<>> /\ textLength(dom.main) > MAIN_MIN_LENGTH
      whole == IF elIsMain THEN dom.main \o <<W(1)>> \o dom.body ELSE dom.body
  IN [text |-> textSlice(textTrim(whole), PAGE_TEXT_LIMIT),
      mediaUrls |-> dom.imgs \o dom.videos,
      imageUrls |-> dom.imgs,
      videoUrls |-> dom.videos]

\* lib/pii.js maskPII by length: nothing replaced, a token one character
\* longer than its match, or tokens shorter than their matches
maskedTexts(pageText) ==
  {pageText, pageText \o <<X(1)>>, textSlice(pageText, textLength(pageText) \div 2)}

\* '\n\nMedia URLs on this page:\n'
MediaUrlsNoteText ==
  <<W(2), X(5), W(1), X(4), W(1), X(2), W(1), X(4), W(1), X(5), W(1)>>

\* 'Page has no extractable text. '
NoTextNoteText ==
  <<X(4), W(1), X(3), W(1), X(2), W(1), X(11), W(1), X(5), W(1)>>

\* 'Attached files: ' + nImg + ' image(s), ' + nVid + ' video(s).'
AttachedNoteText(nImg, nVid) ==
  <<X(8), W(1), X(6), W(1), X(Len(decimal(nImg))), W(1), X(9), W(1),
    X(Len(decimal(nVid))), W(1), X(9)>>

\* popup.js sendToAgent without the final slice
websiteContentOfPopup_NoFinalSlice(masked, snapshot) ==
  LET extracted == textSlice(masked, EXTRACT_LIMIT)
      allMediaUrls == snapshot.imageUrls \o snapshot.videoUrls
  IN textTrim(extracted) \o
     (IF Len(allMediaUrls) > 0
      THEN MediaUrlsNoteText \o joinLines(slice(allMediaUrls, MEDIA_URLS_IN_NOTE), 1)
      ELSE <<>>)

\* popup.js sendToAgent: website_content of the JSON body
websiteContentOfPopup(masked, snapshot) ==
  textSlice(websiteContentOfPopup_NoFinalSlice(masked, snapshot), PAGE_TEXT_LIMIT)

\* background.js runPanicFlow and buildAgentRunFormData: website_content
websiteContentOfPanic(snapshot, nImg, nVid) ==
  LET websiteContent == textSlice(textTrim(snapshot.text), EXTRACT_LIMIT)
      noted == IF nImg > 0 \/ nVid > 0
               THEN (IF websiteContent # <<>> THEN websiteContent \o <<W(2)>>
                     ELSE NoTextNoteText) \o AttachedNoteText(nImg, nVid)
               ELSE websiteContent
  IN textTrim(textSlice(noted, PAGE_TEXT_LIMIT))

InitSnapshot ==
  /\ InitGuard /\ InitMatchOff /\ InitAssessOff /\ InitRequestOff
  /\ InitRedactOff /\ InitHarvestOff /\ InitAggregateOff
  /\ InitClassifyOff
  /\ InitOverlayOff
  /\ InitOptionsOff
  /\ InitSendOff
  /\ sPage \in Doms
  /\ sScript \in {"absent", "present"}
  /\ sFlow \in {"popup", "panic"}
  /\ sPath = "none"
  /\ sPc = "start"
  /\ sSnapshot = NoSnapshot
  /\ sMasked = <<>>
  /\ sSent = <<>>

otherGroupsOfSnapshot ==
  <<guardVars, matchVars, assessVars, requestVars, redactVars, harvestVars, aggVars, classifyVars, overlayVars, optionsVars, sendVars>>

\* popup.js getPageContentWithMedia: sendMessage GET_PAGE_CONTENT_WITH_MEDIA
\* resolves with text, or rejects or resolves empty and the fallback is tried
PopupAsksContentScript(ok) ==
  /\ sFlow = "popup" /\ sPc = "start"
  /\ LET result == contentScriptAnswer(sPage)
     IN IF sScript = "present" /\ ok /\ textTrim(result.text) # <<>>
        THEN /\ sSnapshot' = result
             /\ sPath' = "contentScript"
             /\ sPc' = "harvested"
        ELSE /\ sPc' = "fallback"
             /\ UNCHANGED <<sSnapshot, sPath>>
  /\ UNCHANGED <<sPage, sScript, sFlow, sMasked, sSent>>
  /\ UNCHANGED otherGroupsOfSnapshot

\* popup.js getPageContentWithMedia: sendMessage GET_PAGE_CONTENT
PopupAsksFallback(ok, listener) ==
  /\ sFlow = "popup" /\ sPc = "fallback"
  /\ LET fallback == fallbackAnswer(sPage, listener)
     IN IF sScript = "present" /\ ok /\ textTrim(fallback.text) # <<>>
        THEN /\ sSnapshot' = fallback
             /\ sPath' = "fallback"
             /\ sPc' = "harvested"
        ELSE /\ sPc' = "inject"
             /\ UNCHANGED <<sSnapshot, sPath>>
  /\ UNCHANGED <<sPage, sScript, sFlow, sMasked, sSent>>
  /\ UNCHANGED otherGroupsOfSnapshot

\* popup.js getPageContentWithMedia: chrome.scripting.executeScript; when it
\* fails too, the empty content is returned
PopupInjects(ok) ==
  /\ sFlow = "popup" /\ sPc = "inject"
  /\ LET r == getPageTextAndMediaUrls(sPage)
     IN IF ok /\ textTrim(r.text) # <<>>
        THEN /\ sSnapshot' = r
             /\ sPath' = "injected"
        ELSE /\ sSnapshot' = NoSnapshot
             /\ sPath' = "none"
  /\ sPc' = "harvested"
  /\ UNCHANGED <<sPage, sScript, sFlow, sMasked, sSent>>
  /\ UNCHANGED otherGroupsOfSnapshot

\* popup.js sendToAgent: no page text ends the request, else maskPII
PopupMasks(masked) ==
  /\ sFlow = "popup" /\ sPc = "harvested"
  /\ LET pageText == textTrim(sSnapshot.text)
     IN IF pageText = <<>>
        THEN /\ sPc' = "failed"
             /\ UNCHANGED sMasked
        ELSE /\ masked \in maskedTexts(pageText)
             /\ sMasked' = IF masked # <<>> THEN masked ELSE pageText
             /\ sPc' = "masked"
  /\ UNCHANGED <<sPage, sScript, sFlow, sPath, sSnapshot, sSent>>
  /\ UNCHANGED otherGroupsOfSnapshot

\* popup.js sendToAgent: the POST to the gateway
PopupPosts ==
  /\ sFlow = "popup" /\ sPc = "masked"
  /\ sSent' = websiteContentOfPopup(sMasked, sSnapshot)
  /\ sPc' = "sent"
  /\ UNCHANGED <<sPage, sScript, sFlow, sPath, sSnapshot, sMasked>>
  /\ UNCHANGED otherGroupsOfSnapshot

\* background.js runPanicFlow: sendMessage GET_PAGE_CONTENT_WITH_MEDIA;
\* chrome.runtime.lastError rejects the flow
PanicAsksContentScript(ok) ==
  /\ sFlow = "panic" /\ sPc = "start"
  /\ IF sScript = "present" /\ ok
     THEN /\ sSnapshot' = contentScriptAnswer(sPage)
          /\ sPath' = "contentScript"
          /\ sPc' = "harvested"
     ELSE /\ sPc' = "failed"
          /\ UNCHANGED <<sSnapshot, sPath>>
  /\ UNCHANGED <<sPage, sScript, sFlow, sMasked, sSent>>
  /\ UNCHANGED otherGroupsOfSnapshot

\* background.js runPanicFlow: media fetched (nImg, nVid blobs), form posted
PanicPosts(nImg, nVid) ==
  /\ sFlow = "panic" /\ sPc = "harvested"
  /\ nImg \in 0..Len(sSnapshot.imageUrls)
  /\ nVid \in 0..Len(sSnapshot.videoUrls)
  /\ sSent' = websiteContentOfPanic(sSnapshot, nImg, nVid)
  /\ sPc' = "sent"
  /\ UNCHANGED <<sPage, sScript, sFlow, sPath, sSnapshot, sMasked>>
  /\ UNCHANGED otherGroupsOfSnapshot

NextSnapshot ==
  \/ \E ok \in BOOLEAN : PopupAsksContentScript(ok)
  \/ \E ok \in BOOLEAN, listener \in {"first", "second"} :
       PopupAsksFallback(ok, listener)
  \/ \E ok \in BOOLEAN : PopupInjects(ok)
  \/ \E masked \in maskedTexts(textTrim(sSnapshot.text)) : PopupMasks(masked)
  \/ PopupPosts
  \/ \E ok \in BOOLEAN : PanicAsksContentScript(ok)
  \/ \E nImg \in 0..MaxDomImages + MaxDomVideos, nVid \in 0..MaxDomImages + MaxDomVideos :
       PanicPosts(nImg, nVid)

SpecSnapshot == InitSnapshot /\ [][NextSnapshot]_vars

\* C23: the page text of a PageSnapshot and the website_content of every
\* outbound analysis request are at most 50,000 characters long, also after
\* the client has appended its note about attached files or media URLs
C23_TextWithinLimit ==
  /\ textLength(sSnapshot.text) <= 50000
  /\ textLength(sSent) <= 50000

\* the popup's text and list of media URLs came to more than 50,000
\* characters and were cut to 50,000; the snapshot's text was cut as well
C23_Witness ==
  /\ sFlow = "popup" /\ sPc = "sent"
  /\ textLength(sSnapshot.text) = 50000
  /\ textLength(websiteContentOfPopup_NoFinalSlice(sMasked, sSnapshot)) > 50000
  /\ textLength(sSent) = 50000

\* C24: in every page snapshot handed to the request builder the URLs listed
\* in imageUrls and videoUrls are pairwise distinct, whichever harvesting
\* path produced the snapshot: the content script, the GET_PAGE_CONTENT
\* fallback, or the injected script
C24_SnapshotUrlsDistinct ==
  sPc \in {"harvested", "masked", "sent"} =>
    /\ \A i, j \in 1..Len(sSnapshot.imageUrls) :
         i # j => sSnapshot.imageUrls[i] # sSnapshot.imageUrls[j]
    /\ \A i, j \in 1..Len(sSnapshot.videoUrls) :
         i # j => sSnapshot.videoUrls[i] # sSnapshot.videoUrls[j]

\* the injected script's snapshot of a page that shows one image twice
C24_InjectedListsUrlTwice ==
  /\ sPath = "injected" /\ sPc = "sent"
  /\ sPage.imgs = <<"u_pic", "u_pic">>
  /\ sSnapshot.imageUrls = <<"u_pic", "u_pic">>

(***************************************************************************)
(* lib/pii.js maskPII: the passes of the loop over PII_PATTERNS            *)
(***************************************************************************)
\* the value of counter after the replace of one pattern: the number of
\* matches replaced in s
RECURSIVE counterAfter(_, _, _, _)
counterAfter(s, re, i, counter) ==
  IF i > Len(s) + 1 THEN counter
  ELSE LET ends == matchNode(re, s, i)
       IN IF ends = <<>>
          THEN counterAfter(s, re, i + 1, counter)
          ELSE counterAfter(s, re, IF ends[1] > i THEN ends[1] ELSE i + 1,
                            counter + 1)

\* the value of masked when the loop reaches pattern k
RECURSIVE maskedBefore(_, _)
maskedBefore(text, k) ==
  IF k = 1 THEN text
  ELSE LET p == PII_PATTERNS[k - 1]
       IN replaceFrom(maskedBefore(text, k - 1), p.regex, p.placeholder, 1, 1, 0)

\* the tokens the callback of pattern k returned
tokensOf(text, k) ==
  {PII_PATTERNS[k].placeholder \o decimal(n) :
     n \in 1..counterAfter(maskedBefore(text, k), PII_PATTERNS[k].regex, 1, 0)}

\* C25: in the text returned by maskPII every match that was replaced appears
\* as its own placeholder token, the category's placeholder and a number
\* counted from 1 separately per category, and two different matches never
\* share a token
C25_EveryMatchKeepsItsToken ==
  xPc \in {"once", "twice"} =>
    /\ \A k \in 1..Len(PII_PATTERNS) :
         \A token \in tokensOf(xText, k) : contains(xOnce.masked, token)
    /\ \A k, l \in 1..Len(PII_PATTERNS) :
         k # l => tokensOf(xText, k) \cap tokensOf(xText, l) = {}

\* 'a@b.co 555-1234': the e-mail address became EMAIL1, then the phone
\* pattern matched '1 555-1234' and the text returned is EMAILPHONE1
C25_EmailTokenEaten ==
  /\ xPc = "once"
  /\ xText = t_email \o <<" ">> \o t_phone
  /\ tokensOf(xText, 1) = {<<"E","M","A","I","L","1">>}
  /\ xOnce.masked = <<"E","M","A","I","L","P","H","O","N","E","1">>

\* the text matches none of the configured patterns
matchesNoPattern(text) ==
  \A k \in 1..Len(PII_PATTERNS) : ~test(PII_PATTERNS[k].regex, text)

\* C26: for every text that matches none of the configured PII patterns,
\* maskPII returns the text unchanged and an empty detectedTypes
C26_NoMatchNoChange ==
  (xPc \in {"once", "twice"} /\ matchesNoPattern(xText)) =>
    /\ xOnce.masked = xText
    /\ xOnce.detectedTypes = <<>>

\* 'mail me at 3' holds no e-mail address, number long enough, or name
C26_Witness ==
  /\ xPc = "once"
  /\ xText = <<"m","a","i","l"," ","m","e"," ","a","t"," ","3">>
  /\ matchesNoPattern(xText)
  /\ xOnce = [masked |-> xText, detectedTypes |-> <<>>]

(***************************************************************************)
(* lib/keywords.js detectKeywords, lib/processor.js processPageText and     *)
(* buildReportPayload, content.js collectAndSend.  Of the report payload    *)
(* the model keeps what comes from the page text and the media flags; ts,   *)
(* url and domain are the time and the location of the page.               *)
(***************************************************************************)
MaxKeywordPieces == 2

KEYWORD_CATEGORIES == <<
  [category |-> "violence",
   words |-> <<<<"k","i","l","l">>,
              <<"h","u","r","t">>,
              <<"w","e","a","p","o","n">>,
              <<"g","u","n">>,
              <<"b","l","o","o","d">>,
              <<"a","t","t","a","c","k">>,
              <<"f","i","g","h","t">>>>],
  [category |-> "bullying",
   words |-> <<<<"h","a","t","e"," ","y","o","u">>,
              <<"u","g","l","y">>,
              <<"s","t","u","p","i","d">>,
              <<"l","o","s","e","r">>,
              <<"n","o","b","o","d","y"," ","l","i","k","e","s"," ","y","o","u">>,
              <<"k","i","l","l"," ","y","o","u","r","s","e","l","f">>,
              <<"k","y","s">>>>],
  [category |-> "adult",
   words |-> <<<<"n","s","f","w">>,
              <<"a","d","u","l","t"," ","c","o","n","t","e","n","t">>,
              <<"e","x","p","l","i","c","i","t">>>>],
  [category |-> "self_harm",
   words |-> <<<<"c","u","t"," ","m","y","s","e","l","f">>,
              <<"s","u","i","c","i","d","e">>,
              <<"e","n","d"," ","m","y"," ","l","i","f","e">>,
              <<"s","e","l","f"," ","h","a","r","m">>>>]>>

CategoryNames == {KEYWORD_CATEGORIES[k].category : k \in 1..Len(KEYWORD_CATEGORIES)}

categoryText(c) ==
  CASE c = "violence" -> <<"v","i","o","l","e","n","c","e">>
    [] c = "bullying" -> <<"b","u","l","l","y","i","n","g">>
    [] c = "adult" -> <<"a","d","u","l","t">>
    [] c = "self_harm" -> <<"s","e","l","f","_","h","a","r","m">>

\* keywords.js buildKeywordLookup: byCategory, the words in lower case
byCategory ==
  [k \in 1..Len(KEYWORD_CATEGORIES) |->
     [category |-> KEYWORD_CATEGORIES[k].category,
      words |-> [j \in 1..Len(KEYWORD_CATEGORIES[k].words) |->
                   toLowerCase(KEYWORD_CATEGORIES[k].words[j])]]]

\* a count that notes a matching word once, however often it occurs
matchesLength_Once(normalized, w) ==
  IF test(word(w, TRUE), normalized) THEN 1 ELSE 0

\* normalized.match(new RegExp(escapeRegex(word), 'gi')): the number of matches
matchesLength(normalized, w) == counterAfter(normalized, word(w, TRUE), 1, 0)

\* the inner loop of detectKeywords: count over the words of one category
RECURSIVE countWords(_, _, _)
countWords(normalized, words, j) ==
  IF j > Len(words) THEN 0
  ELSE matchesLength(normalized, words[j]) + countWords(normalized, words, j + 1)

\* keywords.js detectKeywords
detectKeywords(text) ==
  IF text = <<>> THEN [matchedCategories |-> <<>>, countByCategory |-> <<>>]
  ELSE LET normalized == toLowerCase(text)
           count(k) == countWords(normalized, byCategory[k].words, 1)
           matched == SelectSeq([k \in 1..Len(byCategory) |-> k],
                                LAMBDA k : count(k) > 0)
       IN [matchedCategories |->
             [i \in 1..Len(matched) |-> byCategory[matched[i]].category],
           countByCategory |->
             [i \in 1..Len(matched) |->
                [category |-> byCategory[matched[i]].category,
                 count |-> count(matched[i])]]]

\* lib/processor.js processPageText
processPageText(text) ==
  IF text = <<>> THEN NoProcessed
  ELSE LET pii == maskPII(text)
           keywordResult == detectKeywords(pii.masked)
       IN IF Len(pii.detectedTypes) > 0 /\ trim(pii.masked) = <<>>
          THEN NoProcessed
          ELSE [isNull |-> FALSE,
                keywords |-> [matchedCategories |-> keywordResult.matchedCategories,
                              countByCategory |-> keywordResult.countByCategory],
                piiDetected |-> Len(pii.detectedTypes) > 0,
                piiTypes |-> pii.detectedTypes]

\* lib/processor.js buildReportPayload as collectAndSend calls it
buildReportPayload(keywords, hasVideo) ==
  [sent |-> TRUE, keywords |-> keywords, audio |-> FALSE, video |-> hasVideo]

KeywordPieces ==
  {<<"k","i","l","l">>,
   <<"K","I","L","L">>,
   <<"h","a","t","e"," ","y","o","u">>,
   <<"k","i","l","l"," ","y","o","u","r","s","e","l","f">>,
   <<"n","s","f","w">>,
   <<"o","k">>,
   <<"K","i","l","l"," ","B","i","l","l">>,
   <<"e","n","d"," ","m","y"," ","l","i","f","e">>}

RECURSIVE KeywordTextsOf(_)
KeywordTextsOf(k) ==
  IF k = 0 THEN {<<>>}
  ELSE IF k = 1 THEN KeywordPieces
  ELSE {t \o g \o p : t \in KeywordTextsOf(k - 1), g \in Glue, p \in KeywordPieces}

KeywordTexts == UNION {KeywordTextsOf(k) : k \in 0..MaxKeywordPieces}

otherGroupsOfClassify ==
  <<guardVars, matchVars, assessVars, requestVars, redactVars, harvestVars,
    aggVars, snapVars, overlayVars, optionsVars, sendVars>>

InitClassify ==
  /\ InitGuard /\ InitMatchOff /\ InitAssessOff /\ InitRequestOff
  /\ InitRedactOff /\ InitHarvestOff /\ InitAggregateOff /\ InitSnapshotOff
  /\ InitOverlayOff
  /\ InitOptionsOff
  /\ InitSendOff
  /\ kText \in KeywordTexts
  /\ kPc = "start"
  /\ kResult = NoKeywords
  /\ kProcessed = NoProcessed
  /\ kPayload = NoPayload

\* detectKeywords applied to the text
Classify ==
  /\ kPc = "start"
  /\ kResult' = detectKeywords(kText)
  /\ kPc' = "classified"
  /\ UNCHANGED <<kText, kProcessed, kPayload>>
  /\ UNCHANGED otherGroupsOfClassify

\* content.js collectAndSend: processPageText, then the PAGE_SIGNAL payload
\* unless the result is null
CollectAndSend(hasVideo) ==
  /\ kPc = "classified"
  /\ kProcessed' = processPageText(kText)
  /\ kPayload' = IF kProcessed'.isNull THEN NoPayload
                 ELSE buildReportPayload(kProcessed'.keywords, hasVideo)
  /\ kPc' = "reported"
  /\ UNCHANGED <<kText, kResult>>
  /\ UNCHANGED otherGroupsOfClassify

NextClassify ==
  \/ Classify
  \/ \E hasVideo \in BOOLEAN : CollectAndSend(hasVideo)

SpecClassify == InitClassify /\ [][NextClassify]_vars

\* the occurrences of word w in text, whatever the case of the letters,
\* counted from the left, an occurrence starting where the previous one ended
\* or later
RECURSIVE occurrencesFrom(_, _, _)
occurrencesFrom(text, w, i) ==
  IF i + Len(w) - 1 > Len(text) THEN 0
  ELSE IF toLowerCase(SubSeq(text, i, i + Len(w) - 1)) = toLowerCase(w)
       THEN 1 + occurrencesFrom(text, w, i + Len(w))
       ELSE occurrencesFrom(text, w, i + 1)

RECURSIVE occurrencesOfWords(_, _, _)
occurrencesOfWords(text, words, j) ==
  IF j > Len(words) THEN 0
  ELSE occurrencesFrom(text, words[j], 1) + occurrencesOfWords(text, words, j + 1)

occurrencesIn(text, k) == occurrencesOfWords(text, KEYWORD_CATEGORIES[k].words, 1)

\* the words of the lists that occur in the text
matchedWords(text) ==
  {w \in UNION {{KEYWORD_CATEGORIES[k].words[j] :
                   j \in 1..Len(KEYWORD_CATEGORIES[k].words)} :
                k \in 1..Len(KEYWORD_CATEGORIES)} :
     occurrencesFrom(text, w, 1) > 0}

\* the strings a keyword result holds: the names in matchedCategories and
\* the keys of countByCategory
stringsOf(keywords) ==
  {categoryText(keywords.matchedCategories[i]) :
     i \in 1..Len(keywords.matchedCategories)}
  \cup {categoryText(keywords.countByCategory[i].category) :
          i \in 1..Len(keywords.countByCategory)}

\* the result is made of names of the fixed categories and integer counts;
\* a category is matched exactly when it has a count, which is at least 1
wellFormed(keywords) ==
  /\ \A i \in 1..Len(keywords.matchedCategories) :
       keywords.matchedCategories[i] \in CategoryNames
  /\ \A i \in 1..Len(keywords.countByCategory) :
       /\ keywords.countByCategory[i].category \in CategoryNames
       /\ keywords.countByCategory[i].count \in Nat
       /\ keywords.countByCategory[i].count >= 1
  /\ {keywords.matchedCategories[i] : i \in 1..Len(keywords.matchedCategories)}
       = {keywords.countByCategory[i].category : i \in 1..Len(keywords.countByCategory)}
  /\ \A i, j \in 1..Len(keywords.countByCategory) :
       i # j => keywords.countByCategory[i].category # keywords.countByCategory[j].category

FetchSettles(n) ==
  FetchResponseOk(n) \/ FetchResponseNotOk(n) \/ FetchRejected(n)

\* the promise of res.json() settles
BodySettles(n) ==
  \/ \E l \in portalBlacklists(navs[n].apiKey) : JsonParsed(n, TRUE, l)
  \/ JsonParsed(n, FALSE, <<>>)
  \/ FetchRejected(n)

SpecFair ==
  /\ Spec
  /\ \A n \in Navs : WF_vars(StorageGetCallback(n))
  /\ \A n \in Navs : WF_vars(FetchSettles(n))
  /\ \A n \in Navs : WF_vars(BodySettles(n))

\* C28: every top-level http(s) navigation event that finds a stored caller
\* key eventually reaches Decided (Allow, or Block with the redirect
\* issued), provided the storage read and the blacklist fetch eventually
\* settle; the guard never stays in FetchingBlacklist forever
C28_NavigationEventuallyDecided ==
  /\ \A n \in Navs :
       (navs[n].st \in {"storageGet", "fetching", "readingBody"}) ~>
         (navs[n].st = "done")
  /\ [](\A n \in Navs :
          (navs[n].st = "done" /\ navs[n].fetchResult # "none") =>
            (navs[n].redirected \/ navs[n].requested))

\* a navigation found a key, fetched the blacklist and was blocked
C28_Witness ==
  \E n \in Navs :
    /\ navs[n].st = "done"
    /\ navs[n].fetchResult = "ok"
    /\ navs[n].redirected

(***************************************************************************)
(* The blacklist cache and the caller key; the callback of getBlacklist    *)
(***************************************************************************)
\* the navigations whose decision is made in this step
decidedNow == {n \in Navs : navs[n].st # "done" /\ navs'[n].st = "done"
                              /\ navs'[n].fetchResult # "none"}

\* C29: a navigation decision made while caller key K is stored uses only
\* blacklist entries that were fetched with key K: after the stored key has
\* been replaced, or cleared and set again, entries cached for the previous
\* key are not used for any decision
C29_EntriesOfStoredKeyOnly ==
  [][\A n \in decidedNow :
       /\ (navs'[n].fetchResult = "cached" /\ blacklistCache.list # <<>>)
            => blacklistCache.entriesKey = storage.key
       /\ (navs'[n].fetchResult = "ok" /\ blacklistCache'.list # <<>>)
            => navs[n].apiKey = storage.key]_vars

\* the agent key is stored, and a navigation has been redirected on the
\* entries fetched with the control key
C29_OtherKeysEntriesUsed ==
  /\ storage.key = KeyAgent
  /\ blacklistCache.entriesKey = KeyControl
  /\ \E n \in Navs :
       /\ navs[n].st = "done"
       /\ navs[n].fetchResult = "cached"
       /\ navs[n].redirected

\* C30: for every call of getBlacklist the callback is invoked exactly once,
\* so each navigation event yields exactly one allow/block decision,
\* whatever the outcome of the fetch (success, non-2xx response, network
\* error, malformed body)
C30_CallbackExactlyOnce ==
  \A n \in Navs :
    /\ navs[n].callbacks <= 1
    /\ (navs[n].st = "done" /\ navs[n].fetchResult # "none")
         => navs[n].callbacks = 1
    /\ navs[n].st \in {"storageGet", "fetching", "readingBody"}
         => navs[n].callbacks = 0

\* the blacklist request was answered with a non-2xx status and the callback
\* ran twice
C30_CalledTwice ==
  \E n \in Navs :
    /\ navs[n].st = "done"
    /\ navs[n].fetchResult = "failed"
    /\ navs[n].callbacks = 2

(***************************************************************************)
(* Which navigation events the guard acts on                               *)
(***************************************************************************)
\* C31: the guard redirects only top-level http(s) navigations to pages
\* outside the extension: a sub-frame navigation, a navigation to a
\* non-http(s) URL, and a navigation to one of the extension's own pages are
\* never redirected, so the redirect to the block page never causes another
\* redirect
C31_OnlyTopLevelHttpRedirected ==
  \A n \in Navs :
    /\ navs[n].redirected =>
         /\ navs[n].url.frameId = 0
         /\ navs[n].url.protocol \in {"http:", "https:"}
    /\ (navs[n].st # "none"
          /\ (navs[n].url.frameId # 0
                \/ navs[n].url.protocol = "chrome-extension:")) =>
         /\ navs[n].st = "ignored"
         /\ ~navs[n].redirected
         /\ navs[n].callbacks = 0

\* a navigation was redirected, and the navigation to the extension's page
\* that followed was dropped
C31_Witness ==
  /\ navs[1].st = "done" /\ navs[1].redirected
  /\ navs[2].st = "ignored"
  /\ navs[2].url.protocol = "chrome-extension:"
  /\ ~navs[2].redirected

(***************************************************************************)
(* The panic flow: validation before content, and the overlay messages     *)
(***************************************************************************)
\* C32: in the panic flow, when the validation of the key answers invalid
\* (valid false or no mode) or the validation request fails, no page content
\* is requested from the tab and nothing is posted to /v1/agent/run
C32_NoContentWithoutValidKey ==
  rPanic.validation \in {"pending", "invalid", "failed"} =>
    /\ ~rPanic.contentRequested
    /\ ~rPanic.posted
    /\ rPanic.pc \in {"validating", "idle"}

\* a flow whose key the portal rejected has ended
C32_Witness ==
  /\ rPanic.validation = "invalid"
  /\ rPanic.pc = "idle"
  /\ rPanic.apiKey # <<>>
  /\ ~rPanic.contentRequested

\* the terminal updates among the messages a flow sent to the overlay
terminalUpdates(msgs) ==
  SelectSeq(msgs, LAMBDA m : m.type = "UPDATE_PANIC_OVERLAY"
                             /\ m.status \in {"result", "error"})

\* C33: a panic flow started with a stored key sends, after the analyzing
\* message, exactly one terminal UPDATE_PANIC_OVERLAY (result or error); a
\* rejected key produces a single error update carrying the validation error
C33_ExactlyOneTerminalUpdate ==
  (rPanic.apiKey # <<>> /\ rPanic.pc = "idle") =>
    /\ rPanic.overlayMessages[1].type = "SHOW_PANIC_OVERLAY"
    /\ Len(terminalUpdates(rPanic.overlayMessages)) = 1
    /\ rPanic.validation = "invalid" =>
         rPanic.overlayMessages[Len(rPanic.overlayMessages)].message
           = "data.error || 'Invalid API key.'"

\* the rejected key's flow ended with two error updates
C33_TwoErrorUpdates ==
  /\ rPanic.validation = "invalid"
  /\ rPanic.pc = "idle"
  /\ Len(terminalUpdates(rPanic.overlayMessages)) = 2

(***************************************************************************)
(* content.js: the panic overlay                                           *)
(***************************************************************************)
MaxOverlayMessages == 4

otherGroupsOfOverlay ==
  <<guardVars, matchVars, assessVars, requestVars, redactVars, harvestVars,
    aggVars, snapVars, classifyVars, optionsVars, sendVars>>

\* variant: showPanicOverlay without the setTimeout of lines 142-149
showPanicOverlay_NoTimer(el, body, status) ==
  [timeout |-> FALSE,
   el |-> IF ~body THEN el
          ELSE [shown |-> TRUE, status |-> status,
                button |-> (status # "analyzing")],
   drawn |-> body]

\* showPanicOverlay(status, payload): the pending timer is cleared, an
\* analyzing overlay starts a new one, and only then does the function return
\* when the document has no body; otherwise the overlay element is created
\* when missing and filled with the title, the text and, unless analyzing, the
\* dismiss button.
showPanicOverlay(el, body, status) ==
  [timeout |-> (status = "analyzing"),
   el |-> IF ~body THEN el
          ELSE [shown |-> TRUE, status |-> status,
                button |-> (status # "analyzing")],
   drawn |-> body]

\* updatePanicOverlay(payload): nothing without an overlay element; otherwise
\* the timer is cleared and showPanicOverlay(payload.status || 'result') runs
updatePanicOverlay(el, timeout, body, status) ==
  IF ~el.shown THEN [timeout |-> timeout, el |-> el, drawn |-> FALSE]
  ELSE showPanicOverlay(el, body, status)

\* the page's state after a call of one of the two functions
overlayBecomes(r) ==
  /\ panicOverlayEl' = r.el
  /\ panicAnalyzingTimeout' = r.timeout
  /\ oShown' = IF r.drawn THEN Append(oShown, r.el.status) ELSE oShown

InitOverlay ==
  /\ InitGuard
  /\ InitMatchOff
  /\ InitAssessOff
  /\ InitRequestOff
  /\ InitRedactOff
  /\ InitHarvestOff
  /\ InitAggregateOff
  /\ InitSnapshotOff
  /\ InitClassifyOff
  /\ InitOptionsOff
  /\ InitSendOff
  /\ documentBody \in BOOLEAN
  /\ panicOverlayEl = NoOverlay
  /\ panicAnalyzingTimeout = FALSE
  /\ oDelivered = 0
  /\ oShown = <<>>

\* the document's body element has been parsed
BodyParsed ==
  /\ ~documentBody
  /\ documentBody' = TRUE
  /\ UNCHANGED <<panicOverlayEl, panicAnalyzingTimeout, oDelivered, oShown>>
  /\ UNCHANGED otherGroupsOfOverlay

\* onMessage: SHOW_PANIC_OVERLAY, which runPanicFlow sends with status
\* analyzing
ShowPanicOverlayMessage ==
  /\ oDelivered < MaxOverlayMessages
  /\ oDelivered' = oDelivered + 1
  /\ overlayBecomes(showPanicOverlay(panicOverlayEl, documentBody, "analyzing"))
  /\ UNCHANGED documentBody
  /\ UNCHANGED otherGroupsOfOverlay

\* onMessage: UPDATE_PANIC_OVERLAY with status result or error
UpdatePanicOverlayMessage(status) ==
  /\ oDelivered < MaxOverlayMessages
  /\ oDelivered' = oDelivered + 1
  /\ overlayBecomes(updatePanicOverlay(panicOverlayEl, panicAnalyzingTimeout,
                                       documentBody, status))
  /\ UNCHANGED documentBody
  /\ UNCHANGED otherGroupsOfOverlay

\* the callback of the 90-second timer
AnalyzingTimeoutExpires ==
  /\ panicAnalyzingTimeout
  /\ IF panicOverlayEl.shown
     THEN overlayBecomes(showPanicOverlay(panicOverlayEl, documentBody, "error"))
     ELSE /\ panicAnalyzingTimeout' = FALSE
          /\ UNCHANGED <<panicOverlayEl, oShown>>
  /\ UNCHANGED <<documentBody, oDelivered>>
  /\ UNCHANGED otherGroupsOfOverlay

\* the click on "I understood"
DismissClicked ==
  /\ panicOverlayEl.shown
  /\ panicOverlayEl.button
  /\ panicOverlayEl' = NoOverlay
  /\ UNCHANGED <<documentBody, panicAnalyzingTimeout, oDelivered, oShown>>
  /\ UNCHANGED otherGroupsOfOverlay

NextOverlay ==
  \/ BodyParsed
  \/ ShowPanicOverlayMessage
  \/ \E status \in {"result", "error"} : UpdatePanicOverlayMessage(status)
  \/ AnalyzingTimeoutExpires
  \/ DismissClicked

SpecOverlay == InitOverlay /\ [][NextOverlay]_vars

\* A timer that setTimeout has started runs its callback unless clearTimeout
\* cancels it.
SpecOverlayFair == SpecOverlay /\ WF_vars(AnalyzingTimeoutExpires)

\* C34: once SHOW_PANIC_OVERLAY has put the overlay in the analyzing state,
\* the overlay eventually shows a result or an error together with the dismiss
\* button, even when no update arrives: the timer switches it to an error
C34_AnalyzingEventuallyEnds ==
  (panicOverlayEl.shown /\ panicOverlayEl.status = "analyzing")
    ~> (/\ panicOverlayEl.shown
        /\ panicOverlayEl.status \in {"result", "error"}
        /\ panicOverlayEl.button)

\* the timer, and no update, ended an analyzing overlay with an error
C34_Witness ==
  /\ oShown = <<"analyzing", "error">>
  /\ oDelivered = 1
  /\ panicOverlayEl.status = "error"
  /\ panicOverlayEl.button
  /\ ~panicAnalyzingTimeout

\* C35: the 90-second timer is pending only while the overlay is in the
\* analyzing state; once a result or an error is displayed no timer fires later
\* to replace it, for any order of SHOW and UPDATE messages and timer expiry
C35_TimerOnlyWhileAnalyzing ==
  panicAnalyzingTimeout =>
    (panicOverlayEl.shown /\ panicOverlayEl.status = "analyzing")

\* the timer is pending and the page shows no analyzing overlay
C35_TimerWithoutOverlay ==
  /\ panicAnalyzingTimeout
  /\ ~panicOverlayEl.shown
  /\ oDelivered = 1

(***************************************************************************)
(* options.js: saving the caller key                                      *)
(***************************************************************************)
otherGroupsOfOptions ==
  <<guardVars, matchVars, assessVars, requestVars, redactVars, harvestVars,
    aggVars, snapVars, classifyVars, overlayVars, sendVars>>

KeyAgentic == <<"d","3","-","a","g","e","n","t","i","c">>
KeyUpperControl == <<"D","4","-","C","O","N","T","R","O","L">>
KeyUuid == <<"1","2","3","4","a","b","c","d","-","0","0","0","0","-",
             "4","0","0","0","-","8","0","0","0","-",
             "0","0","0","0","0","0","0","0","a","b","c","d">>
KeyBadFormat == <<"d","5">>

\* what the user has typed into the key field when Save is clicked
TypedKeys ==
  {<<>>, <<" ">>, KeyControl, KeyAgent, KeyAgentic, KeyUpperControl, KeyUuid,
   KeyBadFormat, <<" ">> \o KeyControl \o <<" ">>}

HexChars == Digits \cup {"a", "b", "c", "d", "e", "f"}

\* /^[0-9a-f]{8}-[0-9a-f]{4}-[0-9a-f]{4}-[0-9a-f]{4}-[0-9a-f]{12}$/i on a
\* lower-cased key
isUuid(k) ==
  /\ Len(k) = 36
  /\ \A i \in 1..36 :
       IF i \in {9, 14, 19, 24} THEN k[i] = "-" ELSE k[i] \in HexChars

parseModeFromKey(key) ==
  IF key = <<>> THEN null
  ELSE LET k == toLowerCase(trim(key))
       IN IF endsWith(k, <<"-","c","o","n","t","r","o","l">>) THEN "control"
          ELSE IF \/ endsWith(k, <<"-","a","g","e","n","t","i","c">>)
                  \/ endsWith(k, <<"-","a","g","e","n","t">>)
                  \/ isUuid(k)
               THEN "agent"
               ELSE null

\* the portal's response to /api/portal/validate/: res.ok and the body's
\* valid and mode
PortalResponses ==
  [ok : BOOLEAN, valid : BOOLEAN, mode : {null, "control", "agent", "agentic"}]

\* variant: validateWithPortal testing only data.mode
validateWithPortal_ModeOnly(res) ==
  IF ~res.ok THEN [error |-> TRUE, mode |-> null]
  ELSE IF res.mode = null THEN [error |-> TRUE, mode |-> null]
  ELSE [error |-> FALSE,
        mode |-> IF res.mode = "agentic" THEN "agent" ELSE res.mode]

\* validateWithPortal(key), given the response: an error object, or the mode
\* with agentic turned into agent
validateWithPortal(res) ==
  IF ~res.ok THEN [error |-> TRUE, mode |-> null]
  ELSE IF ~res.valid \/ res.mode = null THEN [error |-> TRUE, mode |-> null]
  ELSE [error |-> FALSE,
        mode |-> IF res.mode = "agentic" THEN "agent" ELSE res.mode]

InitOptions ==
  /\ InitGuard
  /\ InitMatchOff
  /\ InitAssessOff
  /\ InitRequestOff
  /\ InitRedactOff
  /\ InitHarvestOff
  /\ InitAggregateOff
  /\ InitSnapshotOff
  /\ InitClassifyOff
  /\ InitOverlayOff
  /\ InitSendOff
  /\ pStored \in {NoKey} \cup StoredPairs
  /\ pSave = [SaveIdle EXCEPT !.pc = "idle"]
  /\ pAnswer = NoAnswer

\* the click on Save, up to the await of validateWithPortal: an empty field
\* and a key of unknown format end the handler
SaveClicked(typed) ==
  /\ pSave.pc = "idle"
  /\ LET raw == trim(typed)
         mode == parseModeFromKey(raw)
     IN /\ pSave' = IF raw = <<>> \/ mode = null
                    THEN [pc |-> "idle", raw |-> raw, mode |-> mode]
                    ELSE [pc |-> "validating", raw |-> raw, mode |-> mode]
        /\ pAnswer' = [key |-> raw,
                       outcome |-> IF raw = <<>> THEN "empty"
                                   ELSE IF mode = null THEN "formatError"
                                   ELSE "asked",
                       mode |-> null]
  /\ UNCHANGED pStored
  /\ UNCHANGED otherGroupsOfOptions

\* the portal's response arrives: an error is shown, or the key is stored
\* with the mode validateWithPortal returned
SaveValidated(res) ==
  /\ pSave.pc = "validating"
  /\ LET portalResult == validateWithPortal(res)
         finalMode == IF portalResult.mode # pSave.mode
                      THEN portalResult.mode ELSE pSave.mode
     IN /\ pStored' = IF portalResult.error \/ portalResult.mode = null
                      THEN pStored
                      ELSE [key |-> pSave.raw, mode |-> finalMode]
        /\ pAnswer' = [key |-> pSave.raw,
                       outcome |-> IF ~res.ok THEN "notOk"
                                   ELSE IF res.valid /\ res.mode # null
                                   THEN "valid" ELSE "invalid",
                       mode |-> res.mode]
  /\ pSave' = [pSave EXCEPT !.pc = "idle"]
  /\ UNCHANGED otherGroupsOfOptions

\* the validation fetch throws: the catch shows the error
SaveFetchFails ==
  /\ pSave.pc = "validating"
  /\ pSave' = [pSave EXCEPT !.pc = "idle"]
  /\ pAnswer' = [key |-> pSave.raw, outcome |-> "networkError", mode |-> null]
  /\ UNCHANGED pStored
  /\ UNCHANGED otherGroupsOfOptions

\* the click on Clear
ClearClicked ==
  /\ pStored # NoKey
  /\ pStored' = NoKey
  /\ UNCHANGED <<pSave, pAnswer>>
  /\ UNCHANGED otherGroupsOfOptions

NextOptions ==
  \/ \E typed \in TypedKeys : SaveClicked(typed)
  \/ \E res \in PortalResponses : SaveValidated(res)
  \/ SaveFetchFails
  \/ ClearClicked

SpecOptions == InitOptions /\ [][NextOptions]_vars

\* a step that stores a key
keyStored == pStored' # pStored /\ pStored'.key # <<>>

\* a save ended without a valid answer
saveRefused ==
  /\ pAnswer' # pAnswer
  /\ pAnswer'.outcome \in {"empty", "formatError", "notOk", "invalid",
                           "networkError"}

SEND_DELAY == 1500
MaxSendTime == 4000

otherGroupsOfSend ==
  <<guardVars, matchVars, assessVars, requestVars, redactVars, harvestVars,
    aggVars, snapVars, classifyVars, overlayVars, optionsVars>>

\* content.js holds two function bodies that run one after the other when the
\* script is loaded (lines 5-343 and 349-438); each declares its own
\* scheduled, scheduleSend and MutationObserver.
ScriptBodies == {1, 2}

\* the step of the clock
sendTick == SEND_DELAY \div 3

\* scheduleSend() at time t in a body whose timer fires at `timer` (-1: no
\* timer, scheduled is null): nothing when a timer is pending, else a timer
\* that fires SEND_DELAY later
scheduleSend(timer, t) == IF timer # -1 THEN timer ELSE t + SEND_DELAY

InitSend ==
  /\ InitGuard
  /\ InitMatchOff
  /\ InitAssessOff
  /\ InitRequestOff
  /\ InitRedactOff
  /\ InitHarvestOff
  /\ InitAggregateOff
  /\ InitSnapshotOff
  /\ InitClassifyOff
  /\ InitOverlayOff
  /\ InitOptionsOff
  /\ tNow = 0
  /\ readyState \in {"loading", "complete"}
  /\ scheduled = [b \in ScriptBodies |->
                    IF readyState = "loading" THEN -1
                    ELSE scheduleSend(-1, 0)]
  /\ tMutations = {}
  /\ tRuns = [b \in ScriptBodies |-> 0]

\* no timer is due: time passes
SendTick ==
  /\ tNow < MaxSendTime
  /\ \A b \in ScriptBodies : scheduled[b] = -1 \/ scheduled[b] > tNow
  /\ tNow' = tNow + sendTick
  /\ UNCHANGED <<scheduled, tMutations, tRuns, readyState>>
  /\ UNCHANGED otherGroupsOfSend

\* DOMContentLoaded: each body's listener calls scheduleSend
DomContentLoaded ==
  /\ readyState = "loading"
  /\ readyState' = "complete"
  /\ scheduled' = [b \in ScriptBodies |-> scheduleSend(scheduled[b], tNow)]
  /\ UNCHANGED <<tNow, tMutations, tRuns>>
  /\ UNCHANGED otherGroupsOfSend

\* a DOM mutation: each body's MutationObserver calls scheduleSend
Mutation ==
  /\ tNow < MaxSendTime
  /\ tMutations' = tMutations \cup {tNow}
  /\ scheduled' = [b \in ScriptBodies |-> scheduleSend(scheduled[b], tNow)]
  /\ UNCHANGED <<tNow, tRuns, readyState>>
  /\ UNCHANGED otherGroupsOfSend

\* the timer of body b fires: scheduled = null, then collectAndSend()
SendTimerFires(b) ==
  /\ scheduled[b] # -1
  /\ tNow >= scheduled[b]
  /\ scheduled' = [scheduled EXCEPT ![b] = -1]
  /\ tRuns' = [tRuns EXCEPT ![b] = @ + 1]
  /\ tMutations' = {}
  /\ UNCHANGED <<tNow, readyState>>
  /\ UNCHANGED otherGroupsOfSend

NextSend ==
  \/ SendTick
  \/ DomContentLoaded
  \/ Mutation
  \/ \E b \in ScriptBodies : SendTimerFires(b)

SpecSend == InitSend /\ [][NextSend]_vars

\* C37: in the content script at most one page-signal send timer is pending
\* at any time: mutations that arrive while a timer is pending start no other
\* one, and every mutation is followed by a collectAndSend run at most 1.5
\* seconds later
C37_OneSendTimer ==
  /\ Cardinality({b \in ScriptBodies : scheduled[b] # -1}) <= 1
  /\ \A m \in tMutations : tNow - m <= SEND_DELAY

\* one mutation has started a timer in both bodies of the script
C37_TwoTimersPending ==
  /\ readyState = "complete"
  /\ tMutations # {}
  /\ \A b \in ScriptBodies : scheduled[b] # -1 /\ tRuns[b] = 1

====
